---- MODULE Spec2Model ----
\* The committed-entry application pipeline of a replica
\* (replica_application_state_machine.go): the force-error check, the
\* application batch (NewBatch / Stage / ApplyToStateMachine / Close) and the
\* post-commit side effects, as a state machine.
EXTENDS Integers, Sequences, FiniteSets, TLC

VARIABLES
    rstate,  \* r.mu.state: the replica's live ReplicaState
    b,       \* sm.batch: the replicaAppBatch
    disk,    \* the storage engine's committed contents for this range
    clock,   \* r.store.Clock(): the node clock's high-water mark
    pc,      \* position of the apply task driving the state machine
    cmds,    \* the checked commands of the current batch, in log order
    last,    \* record of the most recent operation on sm.batch or on a command
    hist,    \* history of the current batch (see MkHist)
    chk,     \* inputs and result of one stand-alone checkForcedErr call
    mb,      \* sm.ephemeralBatch: the ephemeralReplicaAppBatch
    props,   \* the proposals behind the entries (see NoProps)
    rec,     \* crash and recovery of the replica (see NoRec)
    splitMergeLock,  \* the raftMu of the partner range of a split or merge
    mu,      \* r.mu: the replica's mutex as the publishing writer and a reader use it
    rstore   \* r.store: the SSTables handed to the engine and the ingestion counters

vars ==
    <<rstate, b, disk, clock, pc, cmds, last, hist, chk, mb, props, rec,
      splitMergeLock, mu, rstore>>

----------------------------------------------------------------------------
\* Bounds of the model.

\* Highest raft log index an entry carries.
MaxIndex == 3
\* Highest MaxLeaseIndex a command carries.
MaxLeaseIndex == 3
\* Highest timestamp a command or a GC threshold carries.
MaxTS == 2
\* Most commands the apply task stages into one batch.
MaxBatch == 2

----------------------------------------------------------------------------
\* Optional (pointer) values: <<>> is nil, <<x>> points to x.

Nil == <<>>
Some(x) == <<x>>
Max(x, y) == IF x >= y THEN x ELSE y

\* roachpb.Lease, reduced to the fields the pipeline reads.
MkLease(seq, pts, store, exp) ==
    [Sequence |-> seq, ProposedTS |-> pts, StoreID |-> store, Expiration |-> exp]

\* Lease.Equivalent for expiration-based leases: the holder is the same and
\* the new lease does not expire before the old one (an extension counts as
\* equivalent, which makes the relation asymmetric). Sequence and ProposedTS
\* are ignored.
Equivalent(l, newL) ==
    /\ l.StoreID = newL.StoreID
    /\ l.Expiration <= newL.Expiration

\* storagepb.ReplicaState carried inside a ReplicatedEvalResult (res.State).
MkResState(lease, gc, uask) ==
    [Lease |-> lease, GCThreshold |-> gc, UsingAppliedStateKey |-> uask,
     TruncatedState |-> Nil]

\* storagepb.ReplicatedEvalResult.
MkRER(isLease, ts, delta, state, prevProp) ==
    [IsLeaseRequest |-> isLease, Timestamp |-> ts, Delta |-> delta,
     State |-> state, PrevLeaseProposal |-> prevProp,
     Split |-> FALSE, Merge |-> FALSE, RaftLogDelta |-> 0,
     SuggestedCompactions |-> FALSE, ChangeReplicas |-> FALSE,
     AddSSTable |-> FALSE]

\* The zero value storagepb.ReplicatedEvalResult{}.
EmptyRER == MkRER(FALSE, 0, 0, Nil, Nil)

\* storagepb.RaftCommand.
MkRaftCmd(mli, pls, dep, rer, wb, oplog) ==
    [MaxLeaseIndex |-> mli, ProposerLeaseSequence |-> pls,
     DeprecatedProposerLease |-> dep, ReplicatedEvalResult |-> rer,
     WriteBatch |-> wb, LogicalOpLog |-> oplog]

\* proposalReevaluationReason values.
proposalNoReevaluation == "proposalNoReevaluation"
proposalIllegalLeaseIndex == "proposalIllegalLeaseIndex"

\* The *roachpb.Error values checkForcedErr can return ("nil": no error).
ErrNil == "nil"
ErrEmptyEntry == "no-op on empty Raft entry"
ErrLeaseRejectedInvalid == "LeaseRejectedError: proposed under invalid lease"
ErrLeaseRejectedNotInRange == "LeaseRejectedError: replica not part of range"
ErrNotLeaseHolder == "NotLeaseHolderError"
ErrIllegalLeaseIndex == "command observed at lease index"
ErrBeforeGC == "BatchTimestampBeforeGCError"

MkForced(leaseIndex, retry, err) ==
    [leaseIndex |-> leaseIndex, retry |-> retry, err |-> err]

NoForced == MkForced(0, proposalNoReevaluation, ErrNil)

----------------------------------------------------------------------------
\* checkForcedErr: whether a committed command applies or is rejected below
\* raft, as (lease index, proposal retry reason, forced error).

\* Faulty variant: the proposed timestamp of the previous lease is not
\* compared.
leaseMismatchIgnoresPrevProposal(raftCmd, replicaState) ==
    LET res == raftCmd.ReplicatedEvalResult
        cur == replicaState.Lease
    IN  IF raftCmd.DeprecatedProposerLease # Nil
        THEN ~Equivalent(raftCmd.DeprecatedProposerLease[1], cur)
        ELSE LET seqMismatch == raftCmd.ProposerLeaseSequence # cur.Sequence
             IN  IF ~seqMismatch /\ res.IsLeaseRequest
                 THEN LET requestedLease == res.State[1].Lease[1]
                      IN  IF cur.Sequence = requestedLease.Sequence
                          THEN ~Equivalent(cur, requestedLease)
                          ELSE seqMismatch
                 ELSE seqMismatch

\* The lease check of checkForcedErr (leaseMismatch).
leaseMismatch(raftCmd, replicaState) ==
    LET res == raftCmd.ReplicatedEvalResult
        cur == replicaState.Lease
    IN  IF raftCmd.DeprecatedProposerLease # Nil
        THEN ~Equivalent(raftCmd.DeprecatedProposerLease[1], cur)
        ELSE LET seqMismatch == raftCmd.ProposerLeaseSequence # cur.Sequence
             IN  IF ~seqMismatch /\ res.IsLeaseRequest
                 THEN LET requestedLease == res.State[1].Lease[1]
                          m1 == IF cur.Sequence = requestedLease.Sequence
                                THEN ~Equivalent(cur, requestedLease)
                                ELSE seqMismatch
                      IN  IF /\ res.PrevLeaseProposal # Nil
                             /\ res.PrevLeaseProposal[1] # cur.ProposedTS
                          THEN TRUE
                          ELSE m1
                 ELSE seqMismatch

\* Faulty variant: every command proposed under a stale lease, lease requests
\* included, gets a NotLeaseHolderError.
leaseMismatchAlwaysNotLeaseHolder(isLeaseRequest, leaseIndex) ==
    MkForced(leaseIndex, proposalNoReevaluation, ErrNotLeaseHolder)

\* The result for a command proposed under a lease that is no longer the
\* current one: lease requests get a LeaseRejectedError, every other command
\* a NotLeaseHolderError.
leaseMismatchResult(isLeaseRequest, leaseIndex) ==
    IF isLeaseRequest
    THEN MkForced(leaseIndex, proposalNoReevaluation, ErrLeaseRejectedInvalid)
    ELSE MkForced(leaseIndex, proposalNoReevaluation, ErrNotLeaseHolder)

\* Faulty variant: a command applies only at exactly the next lease index.
requiresNextLeaseIndex(leaseAppliedIndex, maxLeaseIndex) ==
    maxLeaseIndex = leaseAppliedIndex + 1

\* The lease-index check for commands other than lease requests: the command
\* must move the lease applied index forward.
movesLeaseIndexForward(leaseAppliedIndex, maxLeaseIndex) ==
    leaseAppliedIndex < maxLeaseIndex

\* Faulty variant: every proposer, local or not, is told to retry.
illegalLeaseIndexAlwaysRetry(leaseIndex, isLocal) ==
    MkForced(leaseIndex, proposalIllegalLeaseIndex, ErrIllegalLeaseIndex)

\* The result for a command that applies at a past lease index: only the
\* local proposer is told to retry.
illegalLeaseIndexResult(leaseIndex, isLocal) ==
    MkForced(leaseIndex,
             IF isLocal THEN proposalIllegalLeaseIndex ELSE proposalNoReevaluation,
             ErrIllegalLeaseIndex)

\* Faulty variant: a command at exactly the GC threshold is let through.
gcThresholdAllowsEqual(leaseIndex, gcThreshold, ts) ==
    IF ~(gcThreshold <= ts)
    THEN MkForced(leaseIndex, proposalNoReevaluation, ErrBeforeGC)
    ELSE MkForced(leaseIndex, proposalNoReevaluation, ErrNil)

\* The GC-threshold check that ends checkForcedErr: the command's timestamp
\* must be above the threshold.
gcThresholdResult(leaseIndex, gcThreshold, ts) ==
    IF ~(gcThreshold < ts)
    THEN MkForced(leaseIndex, proposalNoReevaluation, ErrBeforeGC)
    ELSE MkForced(leaseIndex, proposalNoReevaluation, ErrNil)

\* checkForcedErr looking at the lease before it looks at the command id.
checkForcedErrLeaseBeforeId(idKey, raftCmd, isLocal, replicaState) ==
    LET leaseIndex == replicaState.LeaseAppliedIndex
        res == raftCmd.ReplicatedEvalResult
        isLeaseRequest == res.IsLeaseRequest
        gc == replicaState.GCThreshold
    IN  IF leaseMismatch(raftCmd, replicaState)
        THEN leaseMismatchResult(isLeaseRequest, leaseIndex)
        ELSE IF idKey = ""
        THEN MkForced(leaseIndex, proposalNoReevaluation, ErrEmptyEntry)
        ELSE IF isLeaseRequest
        THEN IF res.State[1].Lease[1].StoreID \notin replicaState.Desc
             THEN MkForced(leaseIndex, proposalNoReevaluation,
                           ErrLeaseRejectedNotInRange)
             ELSE gcThresholdResult(leaseIndex, gc, res.Timestamp)
        ELSE IF movesLeaseIndexForward(replicaState.LeaseAppliedIndex,
                                       raftCmd.MaxLeaseIndex)
        THEN gcThresholdResult(raftCmd.MaxLeaseIndex, gc, res.Timestamp)
        ELSE illegalLeaseIndexResult(leaseIndex, isLocal)

\* checkForcedErr reading the GC threshold of the replica's live state instead
\* of the state it is handed.
checkForcedErrLiveGCThreshold(idKey, raftCmd, isLocal, replicaState) ==
    LET leaseIndex == replicaState.LeaseAppliedIndex
        res == raftCmd.ReplicatedEvalResult
        isLeaseRequest == res.IsLeaseRequest
        gc == rstate.GCThreshold
    IN  IF idKey = ""
        THEN MkForced(leaseIndex, proposalNoReevaluation, ErrEmptyEntry)
        ELSE IF leaseMismatch(raftCmd, replicaState)
        THEN leaseMismatchResult(isLeaseRequest, leaseIndex)
        ELSE IF isLeaseRequest
        THEN IF res.State[1].Lease[1].StoreID \notin replicaState.Desc
             THEN MkForced(leaseIndex, proposalNoReevaluation,
                           ErrLeaseRejectedNotInRange)
             ELSE gcThresholdResult(leaseIndex, gc, res.Timestamp)
        ELSE IF movesLeaseIndexForward(replicaState.LeaseAppliedIndex,
                                       raftCmd.MaxLeaseIndex)
        THEN gcThresholdResult(raftCmd.MaxLeaseIndex, gc, res.Timestamp)
        ELSE illegalLeaseIndexResult(leaseIndex, isLocal)

\* Faulty variant: the lease-index check comes before the lease check.
checkForcedErrOrderingFirst(idKey, raftCmd, isLocal, replicaState) ==
    LET leaseIndex == replicaState.LeaseAppliedIndex
        res == raftCmd.ReplicatedEvalResult
        isLeaseRequest == res.IsLeaseRequest
        gc == replicaState.GCThreshold
    IN  IF idKey = ""
        THEN MkForced(leaseIndex, proposalNoReevaluation, ErrEmptyEntry)
        ELSE IF /\ ~isLeaseRequest
                /\ ~movesLeaseIndexForward(replicaState.LeaseAppliedIndex,
                                           raftCmd.MaxLeaseIndex)
        THEN illegalLeaseIndexResult(leaseIndex, isLocal)
        ELSE IF leaseMismatch(raftCmd, replicaState)
        THEN leaseMismatchResult(isLeaseRequest, leaseIndex)
        ELSE IF isLeaseRequest
        THEN IF res.State[1].Lease[1].StoreID \notin replicaState.Desc
             THEN MkForced(leaseIndex, proposalNoReevaluation,
                           ErrLeaseRejectedNotInRange)
             ELSE gcThresholdResult(leaseIndex, gc, res.Timestamp)
        ELSE gcThresholdResult(raftCmd.MaxLeaseIndex, gc, res.Timestamp)

\* Faulty variant: lease requests go through the lease-index check too.
checkForcedErrLeaseIndexForAll(idKey, raftCmd, isLocal, replicaState) ==
    LET leaseIndex == replicaState.LeaseAppliedIndex
        res == raftCmd.ReplicatedEvalResult
        isLeaseRequest == res.IsLeaseRequest
        gc == replicaState.GCThreshold
    IN  IF idKey = ""
        THEN MkForced(leaseIndex, proposalNoReevaluation, ErrEmptyEntry)
        ELSE IF leaseMismatch(raftCmd, replicaState)
        THEN leaseMismatchResult(isLeaseRequest, leaseIndex)
        ELSE IF /\ isLeaseRequest
                /\ res.State[1].Lease[1].StoreID \notin replicaState.Desc
        THEN MkForced(leaseIndex, proposalNoReevaluation,
                      ErrLeaseRejectedNotInRange)
        ELSE IF movesLeaseIndexForward(replicaState.LeaseAppliedIndex,
                                       raftCmd.MaxLeaseIndex)
        THEN gcThresholdResult(raftCmd.MaxLeaseIndex, gc, res.Timestamp)
        ELSE illegalLeaseIndexResult(leaseIndex, isLocal)

\* Faulty variant: a lease request for a replica of the range is accepted
\* without a look at the GC threshold.
checkForcedErrLeaseSkipsGCThreshold(idKey, raftCmd, isLocal, replicaState) ==
    LET leaseIndex == replicaState.LeaseAppliedIndex
        res == raftCmd.ReplicatedEvalResult
        isLeaseRequest == res.IsLeaseRequest
        gc == replicaState.GCThreshold
    IN  IF idKey = ""
        THEN MkForced(leaseIndex, proposalNoReevaluation, ErrEmptyEntry)
        ELSE IF leaseMismatch(raftCmd, replicaState)
        THEN leaseMismatchResult(isLeaseRequest, leaseIndex)
        ELSE IF isLeaseRequest
        THEN IF res.State[1].Lease[1].StoreID \notin replicaState.Desc
             THEN MkForced(leaseIndex, proposalNoReevaluation,
                           ErrLeaseRejectedNotInRange)
             ELSE MkForced(leaseIndex, proposalNoReevaluation, ErrNil)
        ELSE IF movesLeaseIndexForward(replicaState.LeaseAppliedIndex,
                                       raftCmd.MaxLeaseIndex)
        THEN gcThresholdResult(raftCmd.MaxLeaseIndex, gc, res.Timestamp)
        ELSE illegalLeaseIndexResult(leaseIndex, isLocal)

checkForcedErr(idKey, raftCmd, isLocal, replicaState) ==
    LET leaseIndex == replicaState.LeaseAppliedIndex
        res == raftCmd.ReplicatedEvalResult
        isLeaseRequest == res.IsLeaseRequest
        gc == replicaState.GCThreshold
    IN  IF idKey = ""
        THEN MkForced(leaseIndex, proposalNoReevaluation, ErrEmptyEntry)
        ELSE IF leaseMismatch(raftCmd, replicaState)
        THEN leaseMismatchResult(isLeaseRequest, leaseIndex)
        ELSE IF isLeaseRequest
        THEN IF res.State[1].Lease[1].StoreID \notin replicaState.Desc
             THEN MkForced(leaseIndex, proposalNoReevaluation,
                           ErrLeaseRejectedNotInRange)
             ELSE gcThresholdResult(leaseIndex, gc, res.Timestamp)
        ELSE IF movesLeaseIndexForward(replicaState.LeaseAppliedIndex,
                                       raftCmd.MaxLeaseIndex)
        THEN gcThresholdResult(raftCmd.MaxLeaseIndex, gc, res.Timestamp)
        ELSE illegalLeaseIndexResult(leaseIndex, isLocal)

----------------------------------------------------------------------------
\* Replica state, the application batch and the storage engine.

\* enginepb.MVCCStats, reduced to a user-data counter and the system bytes.
MkStats(live, sys) == [LiveBytes |-> live, SysBytes |-> sys]

\* storagepb.ReplicaState.
MkReplicaState(rai, lai, lease, desc, gc, stats, uask) ==
    [RaftAppliedIndex |-> rai, LeaseAppliedIndex |-> lai, Lease |-> lease,
     Desc |-> desc, GCThreshold |-> gc, Stats |-> stats,
     UsingAppliedStateKey |-> uask]

\* The zero value storagepb.ReplicaState{} (nil pointers read as zero records).
ZeroReplicaState ==
    MkReplicaState(0, 0, MkLease(0, 0, 0, 0), {}, 0, MkStats(0, 0), FALSE)

\* An engine.Batch: the writes staged and not yet committed.
\*   data       raft indexes of the commands whose WriteBatch was applied to it
\*   delLegacy  the legacy applied-index and stats keys are deleted
\*   legacyIdx  put of the legacy applied-index keys  <<raft, lease>>
\*   legacyMS   put of the legacy MVCC-stats key
\*   ras        put of the RangeAppliedState key  [raft, lease, stats]
\*   gc         put of the GC threshold key
EmptyEngineBatch ==
    [data |-> {}, delLegacy |-> FALSE, legacyIdx |-> Nil, legacyMS |-> Nil,
     ras |-> Nil, gc |-> Nil]

\* The zero value replicaAppBatch{}. ownStats is whether state.Stats points
\* to the batch's own stats (b.stats) instead of the live ones.
ZeroBatch ==
    [batch |-> Nil, state |-> ZeroReplicaState, maxTS |-> 0,
     migrateToAppliedStateKey |-> FALSE, entries |-> 0, emptyEntries |-> 0,
     mutations |-> 0, ownStats |-> FALSE]

\* The zero value ephemeralReplicaAppBatch{}: open is r # nil. With it goes
\* set, the leaseIndex, proposalRetry and forcedErr that its last Stage call
\* left on the command it returned.
ZeroEphemeralBatch ==
    [open |-> FALSE, state |-> ZeroReplicaState, set |-> NoForced]

\* Encoded size of an integer value: grows with the value.
IntEncodedSize(n) == IF n < 2 THEN 1 ELSE 2

\* StateLoader.CalcAppliedIndexSysBytes: the system bytes that the two legacy
\* applied-index records take for the given indexes.
CalcAppliedIndexSysBytes(appliedIndex, leaseAppliedIndex) ==
    IntEncodedSize(appliedIndex) + IntEncodedSize(leaseAppliedIndex)

\* The lease the replica starts under, and the range's replicas (store ids).
InitLease == MkLease(1, 1, 1, 1)
InitDesc == {1, 2}

InitReplicaState(uask) ==
    MkReplicaState(0, 1, InitLease, InitDesc, 0,
                   MkStats(0, IF uask THEN 0 ELSE CalcAppliedIndexSysBytes(0, 1)),
                   uask)

\* The engine contents that go with InitReplicaState: one applied-state layout.
InitDisk(uask) ==
    LET st == InitReplicaState(uask)
    IN  [data |-> {},
         gc |-> st.GCThreshold,
         legacyIdx |-> IF uask THEN Nil ELSE Some(<<0, 1>>),
         legacyMS |-> IF uask THEN Nil ELSE Some(st.Stats),
         ras |-> IF uask THEN Some([raft |-> 0, lease |-> 1, stats |-> st.Stats])
                         ELSE Nil]

\* raftpb.ConfChange: the zero value, and the addition of a node.
ZeroConfChange == [Type |-> "ConfChangeAddNode", NodeID |-> 0]
AddNodeConfChange == [Type |-> "ConfChangeAddNode", NodeID |-> 3]

\* A replicatedCmd as decoded from a committed entry, before staging: an
\* entry of type EntryNormal unless stated otherwise, cc the ConfChange
\* decoded from an entry of type EntryConfChange.
MkCmd(idKey, isLocal, raftCmd) ==
    [idKey |-> idKey, isLocal |-> isLocal, raftCmd |-> raftCmd,
     entType |-> "EntryNormal", cc |-> ZeroConfChange]

NoCmd == MkCmd("", FALSE, MkRaftCmd(0, 0, Nil, EmptyRER, FALSE, FALSE))

\* The record kept of the most recent operation: its name, whether it
\* returned without error, its inputs (entry index and command), the result
\* of the force-error check it ran, and the batch, the live state and the
\* engine contents as they were before it; res is the command's replicated
\* result as ApplySideEffects left it, preLock the partner range's lock as it
\* was before the operation, asserted the number of state assertions that
\* ApplySideEffects ran, err the error the operation returned (nil when it
\* returned none or did not return), ccApplied the configuration changes
\* that ApplySideEffects applied to the raft group.
MkLast(op, ok, idx, cmd, forced, preB, preLive, preDisk) ==
    [op |-> op, ok |-> ok, idx |-> idx, cmd |-> cmd, forced |-> forced,
     preB |-> preB, preLive |-> preLive, preDisk |-> preDisk, res |-> EmptyRER,
     preLock |-> splitMergeLock, asserted |-> 0, err |-> Nil,
     ccApplied |-> <<>>, logDelta |-> FALSE, noLogDelta |-> FALSE,
     preStore |-> rstore]

\* History of the current batch: the live state when NewBatch was called, the
\* number of Stage calls that returned a checked command, and how many of
\* those the force-error check rejected. Two fields outlive the batch: the
\* entry index of the last command that Stage returned and that of the last
\* command handed to ApplySideEffects (0 when there was none). life is "none"
\* until the first NewBatch, "open" from NewBatch on and "closed" after Close;
\* handleClosed counts the calls of b.batch.Close() since NewBatch. newLease
\* and newGC, which outlive the batch too, are the lease and the GC threshold
\* of the last commands that carried one and had their side effects run.
MkHist(live0, staged, rejected) ==
    [live0 |-> live0, staged |-> staged, rejected |-> rejected,
     stagedIdx |-> 0, dispatchedIdx |-> 0, life |-> "none", handleClosed |-> 0,
     newLease |-> Nil, newGC |-> Nil, sstStaged |-> {}]

\* What is known of the proposals behind the entries. Entries carry the same
\* proposal when they decode to the same command.
\*   replay    the log is one in which proposals are replayed (ReplayCmds), and
\*             the commands accepted are recorded
\*   applied   the local proposals whose applied flag is set
\*   accepted  the commands that a Stage call has accepted
\*   twice     the commands that Stage calls have accepted more than once
\*   reapplied the local commands that reached the end of ApplySideEffects
\*             unrejected with their proposal's applied flag already set
\*   maintenance  the log carries log truncations and compaction suggestions
\*   leaseRace    the log carries lease requests that were proposed
\*                concurrently (LeaseRaceCmds); accepted is recorded
\*   confChange   the log carries configuration changes (ConfChangeCmds)
NoProps ==
    [replay |-> FALSE, applied |-> {}, accepted |-> {}, twice |-> {},
     reapplied |-> {}, maintenance |-> FALSE, leaseRace |-> FALSE,
     confChange |-> FALSE, ingest |-> FALSE]

\* r.store as the pre-apply triggers see it: the entry indexes of the
\* SSTables handed to the engine, in the order of the ingestions, and the
\* two ingestion counters of the store's metrics.
NoStore ==
    [ingested |-> <<>>, AddSSTableApplications |-> 0,
     AddSSTableApplicationCopies |-> 0]

\* r.mu while ApplyToStateMachine publishes the batch: whether the writer
\* holds the exclusive lock, the position of the writer in publishSteps (0
\* when it is not publishing), and the live state that the last reader saw
\* under the shared lock since the batch was created.
NoMu == [locked |-> FALSE, pos |-> 0, snap |-> Nil]

\* The partner range's lock: whether it is held, and how many times it has
\* been acquired and released.
NoLock == [held |-> FALSE, acquired |-> 0, released |-> 0]

\* Crash and recovery. The replica is followed through one crash once on is
\* set; until then nothing is recorded.
\*   phase  "clean" before the crash, "down" after it, "replay" once restarted
\*   log    the entries of the last batch, as <<index, command>> records
\*   disk0  the engine contents when the last batch was created
\*   clean  the live state the clean application of the last batch ended in
\*   base   the state that the engine holds outside the applied-state record
\*   pos    the position in log of the next entry to replay
NoRec ==
    [on |-> FALSE, phase |-> "clean", log |-> <<>>, disk0 |-> Nil,
     clean |-> Nil, base |-> Nil, pos |-> 0]

\* No Stage call has been made on the stand-alone inputs.
NoStage ==
    [out |-> "none", b |-> ZeroBatch, checked |-> Nil, forced |-> NoForced,
     locked |-> FALSE, err |-> Nil]

\* The stand-alone checkForcedErr call is not in use.
ChkIdle ==
    [pc |-> "idle", idKey |-> "", isLocal |-> FALSE, raftCmd |-> NoCmd.raftCmd,
     rs |-> ZeroReplicaState, out |-> NoForced, again |-> NoForced,
     stage |-> NoStage]

InitMain(uask) ==
    /\ splitMergeLock = NoLock
    /\ mu = NoMu
    /\ rstore = NoStore
    /\ rstate = InitReplicaState(uask)
    /\ hist = MkHist(InitReplicaState(uask), 0, 0)
    /\ b = ZeroBatch
    /\ disk = InitDisk(uask)
    /\ clock = 0
    /\ pc = "idle"
    /\ cmds = <<>>
    /\ mb = ZeroEphemeralBatch
    /\ props = NoProps
    /\ last = MkLast("none", TRUE, 0, NoCmd, NoForced, ZeroBatch,
                     InitReplicaState(uask), InitDisk(uask))

Init ==
    /\ \E uask \in BOOLEAN : InitMain(uask)
    /\ chk = ChkIdle
    /\ rec = NoRec

----------------------------------------------------------------------------
\* The commands the apply task decodes from committed entries.

LeaseSeqs == {1, 2}

\* A write with its stats delta, write batch and op log.
MkPlain(loc, mli, pls, ts) ==
    MkCmd("k", loc,
          MkRaftCmd(mli, pls, Nil, MkRER(FALSE, ts, 1, Nil, Nil), TRUE, TRUE))

\* Writes proposed under lease sequence 1, locally at every lease index,
\* elsewhere at every timestamp and at the lease index already applied, and a
\* write proposed under lease sequence 2.
PlainCmds ==
    { MkPlain(TRUE, mli, 1, MaxTS) : mli \in 1..MaxLeaseIndex }
        \cup { MkPlain(FALSE, MaxLeaseIndex, 1, ts) : ts \in 0..MaxTS }
        \cup { MkPlain(FALSE, 1, 1, MaxTS), MkPlain(FALSE, MaxLeaseIndex, 2, MaxTS) }

\* The leases that lease requests ask for: an extension of InitLease, a
\* shortening of it, a transfer to store 2 and one to a store outside the range.
ReqLeases ==
    { MkLease(1, 2, 1, 2), MkLease(1, 2, 1, 0), MkLease(2, 2, 2, 2),
      MkLease(2, 2, 3, 2) }

MkLeaseCmd(pls, l, prev, ts) ==
    MkCmd("k", FALSE,
          MkRaftCmd(0, pls, Nil,
                    MkRER(TRUE, ts, 0, Some(MkResState(Some(l), Nil, FALSE)), prev),
                    TRUE, TRUE))

\* Lease requests proposed under lease sequence 1 for each of these leases;
\* one evaluated at timestamp 0; one proposed under lease sequence 2; and the
\* extension proposed by this replica, naming the proposed timestamp of the
\* lease it was proposed against or not.
LeaseCmds ==
    { MkLeaseCmd(1, l, Nil, MaxTS) : l \in ReqLeases }
        \cup { MkLeaseCmd(1, MkLease(2, 2, 2, 2), Nil, 0),
               MkLeaseCmd(2, MkLease(2, 2, 2, 2), Nil, MaxTS) }
        \cup { [MkLeaseCmd(1, MkLease(1, 2, 1, 2), prev, MaxTS)
                    EXCEPT !.isLocal = TRUE] : prev \in {Nil, Some(1)} }

\* A GC request that raises the threshold to 1, and a command that adopts the
\* RangeAppliedState key, at the first lease index after the initial one.
StateCmds ==
    { MkCmd("k", FALSE,
            MkRaftCmd(InitReplicaState(FALSE).LeaseAppliedIndex + 1, 1, Nil,
                      MkRER(FALSE, MaxTS, 0, Some(st), Nil), TRUE, TRUE)) :
        st \in { MkResState(Nil, Some(1), FALSE), MkResState(Nil, Nil, TRUE) } }

\* Commands proposed before lease sequences existed: they carry the lease.
DeprecatedCmds ==
    { MkCmd("k", FALSE,
            MkRaftCmd(MaxLeaseIndex, 0, Some(l), MkRER(FALSE, MaxTS, 1, Nil, Nil),
                      TRUE, TRUE)) :
        l \in { InitLease, MkLease(1, 1, 2, 1) } }

\* A write batch without a logical op log, and the reverse.
OddCmds ==
    { MkCmd("k", FALSE,
            MkRaftCmd(MaxLeaseIndex, 1, Nil, MkRER(FALSE, MaxTS, 1, Nil, Nil),
                      wb, ~wb)) : wb \in BOOLEAN }

\* A split at the last lease index, one at a lease index already applied, and
\* a merge at the last lease index.
SplitMergeCmds ==
    { MkCmd("k", FALSE,
            MkRaftCmd(MaxLeaseIndex, 1, Nil,
                      [MkRER(FALSE, MaxTS, 0, Nil, Nil) EXCEPT !.Split = TRUE],
                      TRUE, TRUE)),
      MkCmd("k", FALSE,
            MkRaftCmd(1, 1, Nil,
                      [MkRER(FALSE, MaxTS, 0, Nil, Nil) EXCEPT !.Split = TRUE],
                      TRUE, TRUE)),
      MkCmd("k", FALSE,
            MkRaftCmd(MaxLeaseIndex, 1, Nil,
                      [MkRER(FALSE, MaxTS, 0, Nil, Nil) EXCEPT !.Merge = TRUE],
                      TRUE, TRUE)) }

\* The empty entry raft appends after elections: no id, a zero command.
EmptyCmds == { NoCmd }

\* The commands that arrive with an entry index out of order.
OutOfOrderCmds == StateCmds \cup DeprecatedCmds \cup EmptyCmds

Cmds ==
    PlainCmds \cup LeaseCmds \cup StateCmds \cup DeprecatedCmds \cup OddCmds
        \cup EmptyCmds \cup SplitMergeCmds

\* The proposals of a log in which proposals are replayed: local writes at
\* every lease index, a write proposed elsewhere, the lease extension proposed
\* by this replica, a transfer of the lease and a GC request.
ReplayCmds ==
    { MkPlain(TRUE, mli, 1, MaxTS) : mli \in 1..MaxLeaseIndex }
        \cup { MkPlain(FALSE, MaxLeaseIndex, 1, MaxTS) }
        \cup { c \in LeaseCmds : c.isLocal }
        \cup { MkLeaseCmd(1, MkLease(2, 2, 2, 2), Nil, MaxTS) }
        \cup { c \in StateCmds :
                 c.raftCmd.ReplicatedEvalResult.State[1].GCThreshold # Nil }

\* The commands of the log of a replica that is followed through a crash: a
\* local write at the next lease index and one at the last, a write whose
\* lease index is already applied, a transfer of the lease, the GC request,
\* the adoption of the RangeAppliedState key and the empty entry.
RestartCmds ==
    { MkPlain(TRUE, InitReplicaState(FALSE).LeaseAppliedIndex + 1, 1, MaxTS),
      MkPlain(TRUE, MaxLeaseIndex, 1, MaxTS),
      MkPlain(FALSE, 1, 1, MaxTS),
      MkLeaseCmd(1, MkLease(2, 2, 2, 2), Nil, MaxTS) }
        \cup StateCmds \cup EmptyCmds

\* Log truncations up to index 1, proposed at the first lease index after the
\* initial one: each carries the truncated state, one with the raft log delta
\* of the entries it removes and one whose entries weigh nothing.
TruncationCmds ==
    { [MkPlain(FALSE, InitReplicaState(FALSE).LeaseAppliedIndex + 1, 1, MaxTS)
          EXCEPT !.raftCmd.ReplicatedEvalResult.State =
                     Some([MkResState(Nil, Nil, FALSE)
                              EXCEPT !.TruncatedState = Some(1)]),
                 !.raftCmd.ReplicatedEvalResult.RaftLogDelta = d] :
        d \in {0, 1} }

\* The commands of a log with maintenance work: writes at the next lease
\* index and the last, each also with a raft log delta (a log truncation whose
\* truncated state the pre-apply trigger has dropped), a write with suggested
\* compactions, a transfer of the lease, and the GC request with and without
\* a raft log delta.
MaintenanceCmds ==
    LET next == InitReplicaState(FALSE).LeaseAppliedIndex + 1
        writes == { MkPlain(FALSE, mli, 1, MaxTS) : mli \in {next, MaxLeaseIndex} }
        gc == { c \in StateCmds :
                  c.raftCmd.ReplicatedEvalResult.State[1].GCThreshold # Nil }
    IN  writes
          \cup { [c EXCEPT !.raftCmd.ReplicatedEvalResult.RaftLogDelta = 1] :
                   c \in writes \cup gc }
          \cup { [MkPlain(FALSE, MaxLeaseIndex, 1, MaxTS) EXCEPT
                     !.raftCmd.ReplicatedEvalResult.SuggestedCompactions = TRUE] }
          \cup { MkLeaseCmd(1, MkLease(2, 2, 2, 2), Nil, MaxTS) }
          \cup gc
          \cup TruncationCmds

\* Lease requests proposed concurrently, each naming the proposed timestamp of
\* the lease it was proposed against and asking for a lease proposed later
\* than that one. Against InitLease: an extension proposed by this replica, a
\* longer extension and a transfer to store 2. Against the first extension: a
\* further extension and a transfer. And a write.
LeaseRaceCmds ==
    LET ext == MkLease(1, 2, 1, 2)
    IN  { [MkLeaseCmd(1, ext, Some(InitLease.ProposedTS), MaxTS)
              EXCEPT !.isLocal = TRUE],
          MkLeaseCmd(1, MkLease(1, 3, 1, 3), Some(InitLease.ProposedTS), MaxTS),
          MkLeaseCmd(1, MkLease(2, 2, 2, 2), Some(InitLease.ProposedTS), MaxTS),
          MkLeaseCmd(1, MkLease(1, 4, 1, 4), Some(ext.ProposedTS), MaxTS),
          MkLeaseCmd(1, MkLease(2, 3, 2, 3), Some(ext.ProposedTS), MaxTS),
          MkPlain(FALSE, MaxLeaseIndex, 1, MaxTS) }

\* A replica change: the command of an entry of type EntryConfChange, with
\* the change the entry decodes to.
MkConfChange(loc, mli, pls) ==
    [MkCmd("k", loc,
           MkRaftCmd(mli, pls, Nil,
                     [MkRER(FALSE, MaxTS, 0, Nil, Nil)
                         EXCEPT !.ChangeReplicas = TRUE],
                     TRUE, TRUE))
        EXCEPT !.entType = "EntryConfChange", !.cc = AddNodeConfChange]

\* The commands of a log with configuration changes: replica changes at the
\* next lease index and the last, proposed here or elsewhere, one proposed
\* under another lease sequence, writes at the same lease indexes, and a
\* replica change that arrives in an entry of type EntryNormal.
ConfChangeCmds ==
    LET next == InitReplicaState(FALSE).LeaseAppliedIndex + 1
    IN  { MkConfChange(loc, mli, 1) :
              loc \in BOOLEAN, mli \in {next, MaxLeaseIndex} }
          \cup { MkConfChange(FALSE, MaxLeaseIndex, 2) }
          \cup { MkPlain(FALSE, mli, 1, MaxTS) : mli \in {next, MaxLeaseIndex} }
          \cup { [MkConfChange(FALSE, MaxLeaseIndex, 1)
                     EXCEPT !.entType = "EntryNormal", !.cc = ZeroConfChange] }

\* The entry that recovery hands to Stage next: after a restart no proposal
\* is pending, so that every command decodes as not proposed locally.
ReplayEntry ==
    [idx |-> rec.log[rec.pos].idx,
     cmd |-> [rec.log[rec.pos].cmd EXCEPT !.isLocal = FALSE]]

\* The commands of a log with bulk ingestions: AddSSTable commands at the
\* first lease index after the initial one and at the last (accepted when
\* they move the lease applied index forward, rejected otherwise), one
\* proposed under another lease sequence, one whose command has an op log
\* and no write batch, and plain writes.
IngestCmds ==
    LET next == InitReplicaState(FALSE).LeaseAppliedIndex + 1
        sst(mli, pls) ==
            [MkPlain(FALSE, mli, pls, MaxTS)
                EXCEPT !.raftCmd.ReplicatedEvalResult.AddSSTable = TRUE]
    IN  { sst(mli, 1) : mli \in {next, MaxLeaseIndex} }
          \cup { sst(MaxLeaseIndex, 2) }
          \cup { [sst(MaxLeaseIndex, 1) EXCEPT !.raftCmd.WriteBatch = FALSE] }
          \cup { MkPlain(FALSE, mli, 1, MaxTS) : mli \in {next, MaxLeaseIndex} }

\* The commands the entries of the log decode to.
LogCmds ==
    IF rec.phase = "replay"
    THEN IF rec.pos <= Len(rec.log) THEN {ReplayEntry.cmd} ELSE {}
    ELSE IF rec.on THEN RestartCmds
    ELSE IF props.replay THEN ReplayCmds
    ELSE IF props.maintenance THEN MaintenanceCmds
    ELSE IF props.leaseRace THEN LeaseRaceCmds
    ELSE IF props.confChange THEN ConfChangeCmds
    ELSE IF props.ingest THEN IngestCmds ELSE Cmds

----------------------------------------------------------------------------
\* replicatedCmd.IsTrivial: nothing is left of the result once the fields
\* that staging absorbs (stats delta, timestamp, previous lease proposal) are
\* cleared.
IsTrivial(res) ==
    /\ ~res.IsLeaseRequest
    /\ ~res.Split
    /\ ~res.Merge
    /\ res.RaftLogDelta = 0
    /\ ~res.SuggestedCompactions
    /\ ~res.ChangeReplicas
    /\ ~res.AddSSTable
    /\ IF res.State = Nil THEN TRUE
       ELSE res.State[1] = MkResState(Nil, Nil, FALSE)

\* Faulty variant: the copy of the live state keeps the pointer to the live
\* stats.
NewBatchStateSharesStats(r) ==
    [batch |-> Some(EmptyEngineBatch), state |-> r, maxTS |-> 0,
     migrateToAppliedStateKey |-> FALSE, entries |-> 0, emptyEntries |-> 0,
     mutations |-> 0, ownStats |-> FALSE]

\* NewBatch(false): a storage batch and a copy of the live state whose stats
\* belong to the batch.
NewBatchState(r) ==
    [batch |-> Some(EmptyEngineBatch), state |-> r, maxTS |-> 0,
     migrateToAppliedStateKey |-> FALSE, entries |-> 0, emptyEntries |-> 0,
     mutations |-> 0, ownStats |-> TRUE]

\* The live state after a Stage call that left the batch as bb: the stats
\* that staging writes through bb.state.Stats are the live ones only when the
\* batch does not own its stats.
liveAfterStage(r, bb) ==
    IF bb.ownStats THEN r ELSE [r EXCEPT !.Stats = bb.state.Stats]

NewBatch ==
    /\ pc = "idle"
    /\ rstate.RaftAppliedIndex < MaxIndex
    /\ rec.phase = "replay" => rec.pos <= Len(rec.log)
    /\ rec' = IF rec.on /\ rec.phase = "clean"
              THEN [rec EXCEPT !.log = <<>>, !.disk0 = Some(disk)]
              ELSE rec
    /\ b' = NewBatchState(rstate)
    /\ pc' = "staging"
    /\ cmds' = <<>>
    /\ last' = MkLast("NewBatch", TRUE, 0, NoCmd, NoForced, b, rstate, disk)
    /\ hist' = [MkHist(rstate, 0, 0) EXCEPT
                  !.stagedIdx = hist.stagedIdx,
                  !.dispatchedIdx = hist.dispatchedIdx,
                  !.life = "open",
                  !.newLease = hist.newLease,
                  !.newGC = hist.newGC]
    /\ mu' = [mu EXCEPT !.snap = Nil]
    /\ UNCHANGED <<rstate, disk, clock, chk, mb, props, splitMergeLock, rstore>>

\* shouldApplyCommand: checkForcedErr against the given state (no
\* TestingApplyFilter is installed).
shouldApplyCommand(cmd, replicaState) ==
    checkForcedErr(cmd.idKey, cmd.raftCmd, cmd.isLocal, replicaState)

\* Faulty variant: the rejection branch keeps the command's write batch.
wipeKeepsWriteBatch(raftCmd) ==
    [raftCmd EXCEPT !.ReplicatedEvalResult = EmptyRER,
                    !.LogicalOpLog = FALSE]

\* Faulty variant: the rejection branch keeps the command's replicated result.
wipeKeepsReplicatedResult(raftCmd) ==
    [raftCmd EXCEPT !.WriteBatch = FALSE,
                    !.LogicalOpLog = FALSE]

\* Stage's rejection branch: the command is replaced by an empty one.
wipeCommand(raftCmd) ==
    [raftCmd EXCEPT !.ReplicatedEvalResult = EmptyRER,
                    !.WriteBatch = FALSE,
                    !.LogicalOpLog = FALSE]

\* The put of the GC threshold key in a command's WriteBatch: the evaluation
\* of a GC request writes the threshold that its result carries.
writeBatchGCThreshold(raftCmd) ==
    IF raftCmd.ReplicatedEvalResult.State = Nil THEN Nil
    ELSE raftCmd.ReplicatedEvalResult.State[1].GCThreshold

\* stageWriteBatch: the command's WriteBatch goes into the storage batch;
\* engFail is the engine refusing the batch repr.
stageWriteBatch(bb, idx, raftCmd, engFail) ==
    IF ~raftCmd.WriteBatch
    THEN [b |-> bb, err |-> FALSE]
    ELSE LET b1 == [bb EXCEPT !.mutations = @ + 1]
             gc == writeBatchGCThreshold(raftCmd)
         IN  IF engFail
             THEN [b |-> b1, err |-> TRUE]
             ELSE [b |-> [b1 EXCEPT !.batch =
                                Some([@[1] EXCEPT !.data = @ \cup {idx},
                                                  !.gc = IF gc # Nil THEN gc ELSE @])],
                   err |-> FALSE]

\* Faulty variant: fatal whenever exactly one of the two is present.
preApplyFatalOnMismatch(raftCmd) == raftCmd.WriteBatch # raftCmd.LogicalOpLog

\* runPreApplyTriggers, the logical-op-log check: fatal when there is an op log
\* and no write batch.
preApplyFatal(raftCmd) == ~raftCmd.WriteBatch /\ raftCmd.LogicalOpLog

\* Faulty variant: a command whose result is empty does not advance the applied index.
stageTrivialSkipsEmptyResult(bb, idx, leaseIndex, res) ==
    LET s0 == bb.state
        s1 == IF idx # 0 /\ res # EmptyRER
              THEN [s0 EXCEPT !.RaftAppliedIndex = idx] ELSE s0
        s2 == IF leaseIndex # 0
              THEN [s1 EXCEPT !.LeaseAppliedIndex = leaseIndex] ELSE s1
    IN  [bb EXCEPT !.state = [s2 EXCEPT !.Stats.LiveBytes = @ + res.Delta]]

\* Faulty variant: a command that asks for the RangeAppliedState key starts
\* the migration whether or not the range uses the key already.
stageTrivialMigratesAgain(bb, idx, leaseIndex, res) ==
    LET s0 == bb.state
        s1 == IF idx # 0 THEN [s0 EXCEPT !.RaftAppliedIndex = idx] ELSE s0
        s2 == IF leaseIndex # 0
              THEN [s1 EXCEPT !.LeaseAppliedIndex = leaseIndex] ELSE s1
        s3 == [s2 EXCEPT !.Stats.LiveBytes = @ + res.Delta]
    IN  [bb EXCEPT !.state = s3,
                   !.migrateToAppliedStateKey =
                       IF res.State = Nil THEN @
                       ELSE IF res.State[1].UsingAppliedStateKey THEN TRUE ELSE @]

\* stageTrivialReplicatedEvalResult.
stageTrivialReplicatedEvalResult(bb, idx, leaseIndex, res) ==
    LET s0 == bb.state
        s1 == IF idx # 0 THEN [s0 EXCEPT !.RaftAppliedIndex = idx] ELSE s0
        s2 == IF leaseIndex # 0
              THEN [s1 EXCEPT !.LeaseAppliedIndex = leaseIndex] ELSE s1
        s3 == [s2 EXCEPT !.Stats.LiveBytes = @ + res.Delta]
    IN  [bb EXCEPT !.state = s3,
                   !.migrateToAppliedStateKey =
                       IF /\ res.State # Nil
                          /\ res.State[1].UsingAppliedStateKey
                          /\ ~s0.UsingAppliedStateKey
                       THEN TRUE ELSE @]

\* Faulty variant: only the zero index is refused.
indexNonZero(idx, applied) == idx # 0

\* Faulty variant: only an index that skips entries is refused.
indexNotSkipped(idx, applied) ==
    /\ idx # 0
    /\ idx <= applied + 1

\* The two index checks that open Stage: the entry index is not zero and it
\* is the one after the batch's applied index.
indexInOrder(idx, applied) ==
    /\ idx # 0
    /\ idx = applied + 1

\* maybeAcquireSplitMergeLock: the partner range is locked, and an unlock
\* function returned, when the command carries a split or a merge.
maybeAcquireSplitMergeLock(raftCmd) ==
    raftCmd.ReplicatedEvalResult.Split \/ raftCmd.ReplicatedEvalResult.Merge

\* A command as Stage returns it (apply.CheckedCommand).
MkChecked(idx, cmd, raftCmd, forced) ==
    [idx |-> idx, idKey |-> cmd.idKey, isLocal |-> cmd.isLocal,
     raftCmd |-> raftCmd, leaseIndex |-> forced.leaseIndex,
     proposalRetry |-> forced.retry, forcedErr |-> forced.err,
     trivial |-> IsTrivial(cmd.raftCmd.ReplicatedEvalResult),
     proposal |-> IF cmd.isLocal THEN Some(cmd) ELSE Nil,
     splitMergeUnlock |-> maybeAcquireSplitMergeLock(raftCmd),
     entType |-> cmd.entType, cc |-> cmd.cc]

\* An error of the given type; wrapped is the error it wraps, if any.
MkErr(type, msg, wrapped) == [type |-> type, msg |-> msg, wrapped |-> wrapped]

\* The errors that the storage engine and the partner range return.
EngineErr == MkErr("engine", "storage engine error", Nil)
LockErr == MkErr("lock", "partner range not found", Nil)

\* makeNonDeterministicFailure: the failure wraps a new error with the
\* explanation as its text.
makeNonDeterministicFailure(str) ==
    MkErr("nonDeterministicFailure", str, Some(MkErr("errors", str, Nil)))

\* wrapWithNonDeterministicFailure: the failure wraps the cause, annotated
\* with the explanation.
wrapWithNonDeterministicFailure(err, msg) ==
    MkErr("nonDeterministicFailure", msg, Some(MkErr("errors", msg, Some(err))))

\* The failures of the two index checks that open Stage.
indexErr(idx) ==
    IF idx = 0
    THEN makeNonDeterministicFailure("processRaftCommand requires a non-zero index")
    ELSE makeNonDeterministicFailure("applied index jumped")

\* The failure of maybeAcquireSplitMergeLock as Stage returns it.
splitLockErr(err) ==
    wrapWithNonDeterministicFailure(err, "unable to acquire split lock")

\* Faulty variant: the engine's error is returned as it is.
stageWriteBatchErrUnwrapped(err) == err

\* The failure of ApplyBatchRepr as stageWriteBatch returns it.
stageWriteBatchErr(err) ==
    wrapWithNonDeterministicFailure(err, "unable to apply WriteBatch")

\* Faulty variant: the batch's max timestamp is the last command's timestamp.
forwardMaxTSToLast(maxTS, ts) == ts

\* b.maxTS.Forward(cmd.replicatedResult().Timestamp) in Stage.
forwardMaxTS(maxTS, ts) == Max(maxTS, ts)

\* r.store.Clock().Update(ts): the clock is moved up to ts when it is behind.
clockUpdate(c, ts) == Max(c, ts)

\* replicaAppBatch.Stage on batch bb: out is "ok" (a checked command is
\* returned), "err" (a non-deterministic failure is returned) or "fatal";
\* locked is whether the call acquired the split or merge lock. lockFail is
\* the partner range refusing the lock.
StageBatch(bb, cmd, idx, engFail, lockFail) ==
    IF ~indexInOrder(idx, bb.state.RaftAppliedIndex)
    THEN [out |-> "err", b |-> bb, checked |-> Nil, forced |-> NoForced,
          locked |-> FALSE, err |-> Some(indexErr(idx))]
    ELSE LET forced == shouldApplyCommand(cmd, bb.state)
             rc == IF forced.err # ErrNil THEN wipeCommand(cmd.raftCmd)
                                          ELSE cmd.raftCmd
             locked == maybeAcquireSplitMergeLock(rc)
             b1 == [bb EXCEPT !.maxTS =
                        forwardMaxTS(@, rc.ReplicatedEvalResult.Timestamp)]
             wb == stageWriteBatch(b1, idx, rc, engFail)
         IN  IF locked /\ lockFail
             THEN [out |-> "err", b |-> bb, checked |-> Nil, forced |-> forced,
                   locked |-> FALSE, err |-> Some(splitLockErr(LockErr))]
             ELSE IF wb.err
             THEN [out |-> "err", b |-> wb.b, checked |-> Nil, forced |-> forced,
                   locked |-> locked, err |-> Some(stageWriteBatchErr(EngineErr))]
             ELSE IF preApplyFatal(rc)
             THEN [out |-> "fatal", b |-> wb.b, checked |-> Nil, forced |-> forced,
                   locked |-> locked, err |-> Nil]
             ELSE LET b3 == stageTrivialReplicatedEvalResult(
                                wb.b, idx, forced.leaseIndex, rc.ReplicatedEvalResult)
                      b4 == [b3 EXCEPT !.entries = @ + 1,
                                       !.emptyEntries =
                                           IF cmd.idKey = "" THEN @ + 1 ELSE @]
                  IN  [out |-> "ok", b |-> b4,
                       checked |-> Some(MkChecked(idx, cmd, rc, forced)),
                       forced |-> forced, locked |-> locked, err |-> Nil]

\* Faulty variant: a batch takes any command until it is full.
MayStageAnyCommand(cmd) ==
    \/ cmds = <<>>
    \/ Len(cmds) < MaxBatch

\* The apply task's batching policy: trivial commands share a batch, up to
\* MaxBatch of them; a non-trivial command is staged alone.
MayStage(cmd) ==
    \/ cmds = <<>>
    \/ /\ Len(cmds) < MaxBatch
       /\ IsTrivial(cmd.raftCmd.ReplicatedEvalResult)
       /\ \A i \in 1..Len(cmds) : cmds[i].trivial

\* The entry indexes tried against a batch that has applied up to rai: zero,
\* the index applied last, the next index and an index that skips one.
StageIndexes(rai) == {0, rai, rai + 1, rai + 2}

\* Faulty variant: an ingestion is counted only when the SSTable was copied.
addSSTableTriggerCountsCopies(st, res, idx, copied) ==
    IF res.AddSSTable
    THEN [st EXCEPT !.ingested = Append(@, idx),
                    !.AddSSTableApplications = IF copied THEN @ + 1 ELSE @,
                    !.AddSSTableApplicationCopies = IF copied THEN @ + 1 ELSE @]
    ELSE st

\* The AddSSTable part of runPreApplyTriggers on the store, for the command
\* of entry idx whose result, wiped if the command was rejected, is res:
\* addSSTablePreApply hands the SSTable to the engine and reports whether it
\* had to copy the file.
addSSTableTrigger(st, res, idx, copied) ==
    IF res.AddSSTable
    THEN [st EXCEPT !.ingested = Append(@, idx),
                    !.AddSSTableApplications = @ + 1,
                    !.AddSSTableApplicationCopies = IF copied THEN @ + 1 ELSE @]
    ELSE st

\* The AddSSTable part of runPreApplyTriggers on the command: the field is
\* cleared from its result.
addSSTableCleared(cmd) ==
    [cmd EXCEPT !.raftCmd.ReplicatedEvalResult.AddSSTable = FALSE]

\* Whether a replicated result carries a truncated state.
HasTruncatedState(res) ==
    IF res.State = Nil THEN FALSE ELSE res.State[1].TruncatedState # Nil

\* The truncated-state part of runPreApplyTriggers on a checked command:
\* when handleTruncatedStateBelowRaft reports that the truncation does not
\* apply to this replica, the truncated state and the raft log delta are
\* dropped from the command's result.
truncatedStatePreApply(cmd, apply) ==
    IF HasTruncatedState(cmd.raftCmd.ReplicatedEvalResult) /\ ~apply
    THEN [cmd EXCEPT
            !.raftCmd.ReplicatedEvalResult.State =
                Some([@[1] EXCEPT !.TruncatedState = Nil]),
            !.raftCmd.ReplicatedEvalResult.RaftLogDelta = 0]
    ELSE cmd

Stage ==
    /\ pc = "staging"
    /\ b.state.RaftAppliedIndex < MaxIndex
    /\ \E cmd \in LogCmds, idx \in StageIndexes(b.state.RaftAppliedIndex),
          engFail \in BOOLEAN, lockFail \in BOOLEAN, apply \in BOOLEAN,
          copied \in BOOLEAN :
        /\ MayStage(cmd)
        /\ copied => cmd.raftCmd.ReplicatedEvalResult.AddSSTable
        /\ ~apply => HasTruncatedState(cmd.raftCmd.ReplicatedEvalResult)
        /\ lockFail => cmd \in SplitMergeCmds /\ ~engFail
        /\ rec.phase = "replay" => idx = ReplayEntry.idx
        /\ idx # b.state.RaftAppliedIndex + 1 => cmd \in OutOfOrderCmds /\ ~engFail
        /\ engFail => cmd.raftCmd.WriteBatch
        /\ LET r == StageBatch(b, cmd, idx, engFail, lockFail)
           IN  /\ b' = r.b
               /\ rstate' = liveAfterStage(rstate, r.b)
               /\ splitMergeLock' = IF r.locked
                                    THEN [splitMergeLock EXCEPT
                                            !.held = TRUE, !.acquired = @ + 1]
                                    ELSE splitMergeLock
               /\ cmds' = IF r.out = "ok"
                          THEN Append(cmds,
                                      truncatedStatePreApply(
                                          addSSTableCleared(r.checked[1]), apply))
                          ELSE cmds
               /\ rstore' = IF r.out \in {"ok", "fatal"}
                           THEN addSSTableTrigger(
                                    rstore,
                                    IF r.forced.err # ErrNil THEN EmptyRER
                                    ELSE cmd.raftCmd.ReplicatedEvalResult,
                                    idx, copied)
                           ELSE rstore
               /\ pc' = CASE r.out = "ok" -> "staging"
                          [] r.out = "err" -> "failed"
                          [] OTHER -> "crashed"
               /\ last' = [MkLast("Stage", r.out = "ok", idx, cmd, r.forced,
                                  b, rstate, disk) EXCEPT !.err = r.err]
               /\ hist' = IF r.out = "ok"
                          THEN [hist EXCEPT
                                  !.staged = @ + 1,
                                  !.stagedIdx = idx,
                                  !.sstStaged =
                                      IF /\ r.forced.err = ErrNil
                                         /\ cmd.raftCmd.ReplicatedEvalResult.AddSSTable
                                      THEN @ \cup {idx} ELSE @,
                                  !.rejected =
                                      IF r.forced.err # ErrNil THEN @ + 1 ELSE @]
                          ELSE hist
               /\ props' = IF /\ (props.replay \/ props.leaseRace)
                               /\ r.out = "ok"
                               /\ r.forced.err = ErrNil
                            THEN [props EXCEPT
                                    !.accepted = @ \cup {cmd},
                                    !.twice = IF cmd \in props.accepted
                                              THEN @ \cup {cmd} ELSE @]
                            ELSE props
               /\ rec' = IF ~rec.on \/ r.out # "ok" THEN rec
                          ELSE IF rec.phase = "replay"
                          THEN [rec EXCEPT !.pos = @ + 1]
                          ELSE [rec EXCEPT
                                  !.log = Append(@, [idx |-> idx, cmd |-> cmd])]
    /\ UNCHANGED <<disk, clock, chk, mb, mu>>

----------------------------------------------------------------------------
\* Commit of the batch.

\* StateLoader.SetLegacyAppliedIndexBlind: the system bytes of the two records
\* it writes, reported through appliedIndexNewMS.
appliedIndexNewSysBytes(appliedIndex, leaseAppliedIndex) ==
    CalcAppliedIndexSysBytes(appliedIndex, leaseAppliedIndex)

\* The RangeAppliedState record.
MkRAS(st) ==
    [raft |-> st.RaftAppliedIndex, lease |-> st.LeaseAppliedIndex,
     stats |-> st.Stats]

\* The failures the storage layer can return during a commit.
CommitFailures ==
    {"none", "migrate", "setRangeAppliedState", "setLegacyAppliedIndex",
     "setMVCCStats", "commit"}

\* The error ApplyToStateMachine returns when the storage layer fails with
\* fail: the loader's error as addAppliedStateKeyToBatch wraps it, or the
\* error of the commit.
applyToStateMachineErr(fail) ==
    wrapWithNonDeterministicFailure(
        EngineErr,
        CASE fail = "migrate" -> "unable to migrate to range applied state"
          [] fail = "setRangeAppliedState" -> "unable to set range applied state"
          [] fail = "setLegacyAppliedIndex" -> "unable to set applied index"
          [] fail = "setMVCCStats" -> "unable to update MVCCStats"
          [] OTHER -> "unable to commit Raft entry batch")

\* Faulty variant: the migration branch is never taken.
addAppliedStateKeyWithoutMigration(bb, fail) ==
    IF bb.state.UsingAppliedStateKey
    THEN IF fail = "setRangeAppliedState"
         THEN [b |-> bb, err |-> TRUE]
         ELSE [b |-> [bb EXCEPT !.batch =
                            Some([@[1] EXCEPT !.ras = Some(MkRAS(bb.state))])],
               err |-> FALSE]
    ELSE IF fail = "setLegacyAppliedIndex"
    THEN [b |-> bb, err |-> TRUE]
    ELSE LET rai == bb.state.RaftAppliedIndex
             lai == bb.state.LeaseAppliedIndex
             b2 == [bb EXCEPT
                      !.batch = Some([@[1] EXCEPT !.legacyIdx = Some(<<rai, lai>>)])]
         IN  IF fail = "setMVCCStats"
             THEN [b |-> b2, err |-> TRUE]
             ELSE [b |-> [b2 EXCEPT !.batch =
                                Some([@[1] EXCEPT !.legacyMS = Some(b2.state.Stats)])],
                   err |-> FALSE]

\* Faulty variant: the applied-state record is left out of the storage batch.
addAppliedStateKeyNotWritten(bb, fail) == [b |-> bb, err |-> FALSE]

\* addAppliedStateKeyToBatch: err is TRUE when a loader call failed.
addAppliedStateKeyToBatch(bb, fail) ==
    LET mig == bb.migrateToAppliedStateKey
        b1 == IF mig /\ fail # "migrate"
              THEN [bb EXCEPT !.batch = Some([@[1] EXCEPT !.delLegacy = TRUE]),
                              !.state.UsingAppliedStateKey = TRUE]
              ELSE bb
    IN  IF mig /\ fail = "migrate"
        THEN [b |-> bb, err |-> TRUE]
        ELSE IF b1.state.UsingAppliedStateKey
        THEN IF fail = "setRangeAppliedState"
             THEN [b |-> b1, err |-> TRUE]
             ELSE [b |-> [b1 EXCEPT !.batch =
                                Some([@[1] EXCEPT !.ras = Some(MkRAS(b1.state))])],
                   err |-> FALSE]
        ELSE IF fail = "setLegacyAppliedIndex"
        THEN [b |-> b1, err |-> TRUE]
        ELSE LET rai == b1.state.RaftAppliedIndex
                 lai == b1.state.LeaseAppliedIndex
                 b2 == [b1 EXCEPT
                          !.batch = Some([@[1] EXCEPT !.legacyIdx = Some(<<rai, lai>>)]),
                          !.state.Stats.SysBytes =
                              @ + appliedIndexNewSysBytes(rai, lai)
                                - CalcAppliedIndexSysBytes(rai, lai)]
             IN  IF fail = "setMVCCStats"
                 THEN [b |-> b2, err |-> TRUE]
                 ELSE [b |-> [b2 EXCEPT !.batch =
                                    Some([@[1] EXCEPT !.legacyMS = Some(b2.state.Stats)])],
                       err |-> FALSE]

\* engine.Batch.Commit: the batch's deletions and puts reach the engine at once.
CommitBatch(d, eng) ==
    [data |-> d.data \cup eng.data,
     gc |-> IF eng.gc # Nil THEN eng.gc[1] ELSE d.gc,
     legacyIdx |-> IF eng.legacyIdx # Nil THEN eng.legacyIdx
                   ELSE IF eng.delLegacy THEN Nil ELSE d.legacyIdx,
     legacyMS |-> IF eng.legacyMS # Nil THEN eng.legacyMS
                  ELSE IF eng.delLegacy THEN Nil ELSE d.legacyMS,
     ras |-> IF eng.ras # Nil THEN eng.ras ELSE d.ras]

\* Faulty variant: the lease applied index is not published.
publishStateWithoutLeaseIndex(r, bstate) ==
    [r EXCEPT !.RaftAppliedIndex = bstate.RaftAppliedIndex,
              !.Stats = bstate.Stats]

\* The update of r.mu.state at the end of ApplyToStateMachine.
publishState(r, bstate) ==
    [r EXCEPT !.RaftAppliedIndex = bstate.RaftAppliedIndex,
              !.LeaseAppliedIndex = bstate.LeaseAppliedIndex,
              !.Stats = bstate.Stats]

ApplyToStateMachine ==
    /\ pc = "staging"
    /\ cmds # <<>>
    /\ \E fail \in CommitFailures :
        LET a == addAppliedStateKeyToBatch(b, fail)
            failed == a.err \/ fail = "commit"
        IN  /\ clock' = clockUpdate(clock, b.maxTS)
            /\ b' = IF failed THEN a.b ELSE [a.b EXCEPT !.batch = Nil]
            /\ disk' = IF failed THEN disk ELSE CommitBatch(disk, a.b.batch[1])
            /\ rstate' = IF failed THEN rstate ELSE publishState(rstate, a.b.state)
            /\ pc' = IF failed THEN "failed" ELSE "applied"
            /\ last' = [MkLast("ApplyToStateMachine", ~failed, 0, NoCmd, NoForced,
                               b, rstate, disk)
                          EXCEPT !.err = IF failed
                                         THEN Some(applyToStateMachineErr(fail))
                                         ELSE Nil]
            /\ hist' = IF failed THEN hist
                       ELSE [hist EXCEPT !.handleClosed = @ + 1]
    /\ UNCHANGED <<cmds, chk, mb, props, rec, splitMergeLock, mu, rstore>>

----------------------------------------------------------------------------
\* Side effects of a committed command.

\* clearTrivialReplicatedEvalResultFields.
clearTrivialReplicatedEvalResultFields(res) ==
    [res EXCEPT !.IsLeaseRequest = FALSE,
                !.Timestamp = 0,
                !.PrevLeaseProposal = Nil,
                !.State = IF @ = Nil THEN Nil
                          ELSE IF @[1] = MkResState(Nil, Nil, FALSE) THEN Nil
                          ELSE @,
                !.Delta = 0]

\* Faulty variant: the GC threshold of the result is dropped unhandled.
handleNonTrivialSkipsGCThreshold(r, res) ==
    IF res.State = Nil
    THEN r
    ELSE LET st == res.State[1]
             r1 == IF st.Lease # Nil THEN [r EXCEPT !.Lease = st.Lease[1]] ELSE r
         IN  IF st.UsingAppliedStateKey
             THEN [r1 EXCEPT !.UsingAppliedStateKey = TRUE] ELSE r1

\* Faulty variant: the lease of the result is dropped unhandled.
handleNonTrivialSkipsLease(r, res) ==
    IF res.State = Nil
    THEN r
    ELSE LET st == res.State[1]
             r2 == IF st.GCThreshold # Nil
                   THEN [r EXCEPT !.GCThreshold = st.GCThreshold[1]] ELSE r
         IN  IF st.UsingAppliedStateKey
             THEN [r2 EXCEPT !.UsingAppliedStateKey = TRUE] ELSE r2

\* The State of a replicated result, an empty one when it has none.
StateOf(res) ==
    IF res.State = Nil THEN MkResState(Nil, Nil, FALSE) ELSE res.State[1]

\* handleNonTrivialReplicatedEvalResult on the live state: the lease, the GC
\* threshold and the applied-state-key flag of the result's State.
handleNonTrivialReplicatedEvalResult(r, res) ==
    IF res.State = Nil
    THEN r
    ELSE LET st == res.State[1]
             r1 == IF st.Lease # Nil THEN [r EXCEPT !.Lease = st.Lease[1]] ELSE r
             r2 == IF st.GCThreshold # Nil
                   THEN [r1 EXCEPT !.GCThreshold = st.GCThreshold[1]] ELSE r1
         IN  IF st.UsingAppliedStateKey
             THEN [r2 EXCEPT !.UsingAppliedStateKey = TRUE] ELSE r2

\* Faulty variant: the state is asserted after every run of the handlers.
shouldAssertAlways(res) == TRUE

\* The value handleNonTrivialReplicatedEvalResult returns: whether anything
\* is left of the result once the raft log delta and the suggested
\* compactions are handled and an empty State is dropped.
shouldAssert(res) ==
    [res EXCEPT !.RaftLogDelta = 0,
                !.SuggestedCompactions = FALSE,
                !.State = IF @ = Nil THEN Nil
                          ELSE IF [@[1] EXCEPT !.TruncatedState = Nil]
                                     = MkResState(Nil, Nil, FALSE) THEN Nil
                          ELSE Some([@[1] EXCEPT !.TruncatedState = Nil])]
        # EmptyRER

\* The sizes handleTruncatedStateResult can return for a truncation: that of
\* the sideloaded files it removed.
SideloadedSizes == {0, 1}

\* The raft log delta handleNonTrivialReplicatedEvalResult ends up with in
\* its copy of the result: the delta of the command plus what the
\* truncated-state handler returns.
raftLogDeltaHandled(res, sideloaded) ==
    res.RaftLogDelta + (IF HasTruncatedState(res) THEN sideloaded ELSE 0)

\* Whether ApplySideEffects runs handleRaftLogDeltaResult for a command whose
\* result, with the trivial fields cleared, is res.
runsRaftLogDeltaHandler(res, sideloaded) ==
    ~IsTrivial(res) /\ raftLogDeltaHandled(res, sideloaded) # 0

\* Whether ApplySideEffects runs handleNoRaftLogDeltaResult for a command
\* whose own result is res when the handlers are done.
runsNoRaftLogDeltaHook(res) == res.RaftLogDelta = 0

\* The number of state assertions ApplySideEffects runs for a command whose
\* result, with the trivial fields cleared, is res.
stateAssertions(res) ==
    IF ~IsTrivial(res) /\ shouldAssert(res) THEN 1 ELSE 0

\* Faulty variant: the handlers work on the command's own result, so that
\* nothing is left of it.
resultAfterSideEffectsByReference(res) == EmptyRER

\* The command's own replicated result when ApplySideEffects returns. The
\* trivial fields are cleared in place. handleNonTrivialReplicatedEvalResult
\* is handed a copy of the struct: the fields of the State it points to are
\* cleared through the shared pointer, the pointer itself is cleared in the
\* copy only.
resultAfterSideEffects(res) ==
    LET r1 == clearTrivialReplicatedEvalResultFields(res)
    IN  IF IsTrivial(r1)
        THEN r1
        ELSE [r1 EXCEPT !.State = IF @ = Nil THEN Nil
                                  ELSE Some(MkResState(Nil, Nil, FALSE))]

\* Faulty variant: a proposal's applied flag is never looked at.
alreadyAppliedNotChecked(cmd, applied) == FALSE

\* The end of ApplySideEffects: a local command that was not rejected and
\* whose proposal has its applied flag set already.
alreadyApplied(cmd, applied) ==
    IF cmd.isLocal
    THEN cmd.forcedErr = ErrNil /\ cmd.proposal[1] \in applied
    ELSE FALSE

\* Faulty variant: the decoded change is applied whether the command was
\* rejected or not.
maybeApplyConfChangeAsDecoded(entType, cc, res) ==
    IF entType = "EntryNormal"
    THEN [applied |-> <<>>, fatal |-> res.ChangeReplicas]
    ELSE [applied |-> <<cc>>, fatal |-> FALSE]

\* maybeApplyConfChange for a command of the given entry type with decoded
\* change cc, whose own replicated result is res when ApplySideEffects calls
\* it: the changes applied to the raft group, and whether the call is fatal.
maybeApplyConfChange(entType, cc, res) ==
    IF entType = "EntryNormal"
    THEN [applied |-> <<>>, fatal |-> res.ChangeReplicas]
    ELSE [applied |-> <<IF ~res.ChangeReplicas THEN ZeroConfChange ELSE cc>>,
          fatal |-> FALSE]

\* Faulty variant: the unlock function attached to the command is not called.
unlockNever(lock, cmd) == lock

\* Faulty variant: the unlock function is called for local commands only.
unlockForLocalOnly(lock, cmd) ==
    IF cmd.splitMergeUnlock /\ cmd.isLocal
    THEN [lock EXCEPT !.held = FALSE, !.released = @ + 1]
    ELSE lock

\* The deferred call of cmd.splitMergeUnlock, which runs when ApplySideEffects
\* returns.
unlockAfterSideEffects(lock, cmd) ==
    IF cmd.splitMergeUnlock
    THEN [lock EXCEPT !.held = FALSE, !.released = @ + 1]
    ELSE lock

ApplySideEffects ==
    /\ pc = "applied"
    /\ cmds # <<>>
    /\ \E sideloaded \in SideloadedSizes :
       /\ sideloaded # 0 =>
              HasTruncatedState(Head(cmds).raftCmd.ReplicatedEvalResult)
       /\ LET cmd == Head(cmds)
              res == clearTrivialReplicatedEvalResultFields(
                         cmd.raftCmd.ReplicatedEvalResult)
              conf == maybeApplyConfChange(
                          cmd.entType, cmd.cc,
                          resultAfterSideEffects(cmd.raftCmd.ReplicatedEvalResult))
              fatal == conf.fatal \/ alreadyApplied(cmd, props.applied)
          IN  /\ rstate' = IF ~IsTrivial(res)
                           THEN handleNonTrivialReplicatedEvalResult(rstate, res)
                           ELSE rstate
              /\ cmds' = IF fatal THEN cmds ELSE Tail(cmds)
              /\ pc' = IF fatal THEN "crashed" ELSE pc
              /\ props' = IF ~cmd.isLocal \/ conf.fatal THEN props
                           ELSE IF fatal
                           THEN [props EXCEPT !.reapplied = @ \cup {cmd.proposal[1]}]
                           ELSE [props EXCEPT
                                   !.applied = @ \cup {cmd.proposal[1]},
                                   !.reapplied =
                                       IF /\ cmd.forcedErr = ErrNil
                                          /\ cmd.proposal[1] \in props.applied
                                       THEN @ \cup {cmd.proposal[1]} ELSE @]
              /\ last' = [MkLast("ApplySideEffects", ~fatal, cmd.idx,
                                 [MkCmd(cmd.idKey, cmd.isLocal, cmd.raftCmd)
                                     EXCEPT !.entType = cmd.entType, !.cc = cmd.cc],
                                 MkForced(cmd.leaseIndex, cmd.proposalRetry, cmd.forcedErr),
                                 b, rstate, disk)
                             EXCEPT !.res = resultAfterSideEffects(
                                                cmd.raftCmd.ReplicatedEvalResult),
                                    !.asserted = stateAssertions(res),
                                    !.ccApplied = conf.applied,
                                    !.logDelta =
                                        runsRaftLogDeltaHandler(res, sideloaded),
                                    !.noLogDelta =
                                        runsNoRaftLogDeltaHook(
                                            resultAfterSideEffects(
                                                cmd.raftCmd.ReplicatedEvalResult))]
              /\ hist' = [hist EXCEPT
                            !.dispatchedIdx = cmd.idx,
                            !.newLease = IF StateOf(res).Lease # Nil
                                         THEN StateOf(res).Lease ELSE @,
                            !.newGC = IF StateOf(res).GCThreshold # Nil
                                      THEN StateOf(res).GCThreshold ELSE @]
              /\ splitMergeLock' = IF fatal THEN splitMergeLock
                                   ELSE unlockAfterSideEffects(splitMergeLock, cmd)
    /\ UNCHANGED <<b, disk, clock, chk, mb, rec, mu, rstore>>

\* Faulty variant: the storage batch is left open.
closeBatchLeavesHandle(bb) == [b |-> ZeroBatch, released |-> FALSE]

\* replicaAppBatch.Close on batch bb: the storage batch is closed when there
\* is one (released), and the struct is zeroed.
closeBatch(bb) == [b |-> ZeroBatch, released |-> bb.batch # Nil]

\* The batch history after a Close call on b.
HistAfterClose ==
    [hist EXCEPT !.life = IF @ = "none" THEN @ ELSE "closed",
                 !.handleClosed = IF closeBatch(b).released THEN @ + 1 ELSE @]

\* replicaAppBatch.Close, which the apply task defers: it runs once the side
\* effects of the batch are done, or after a failure.
Close ==
    /\ \/ pc = "applied" /\ cmds = <<>>
       \/ pc = "failed"
    /\ b' = closeBatch(b).b
    /\ hist' = HistAfterClose
    /\ cmds' = <<>>
    /\ pc' = IF pc = "failed" THEN "dead" ELSE "idle"
    /\ last' = MkLast("Close", TRUE, 0, NoCmd, NoForced, b, rstate, disk)
    /\ UNCHANGED <<rstate, disk, clock, chk, mb, props, rec, splitMergeLock, mu, rstore>>

\* Close called at any point of the batch's life, and again after it: before
\* a commit, after one that succeeded or failed, and on the zero batch. The
\* apply task goes on to the next batch when the batch it closes is done, and
\* gives up otherwise.
CloseAnytime ==
    /\ pc \in {"idle", "staging", "applied", "failed", "dead"}
    /\ b' = closeBatch(b).b
    /\ hist' = HistAfterClose
    /\ cmds' = <<>>
    /\ pc' = IF pc = "idle" \/ (pc = "applied" /\ cmds = <<>>)
             THEN "idle" ELSE "dead"
    /\ last' = MkLast("Close", TRUE, 0, NoCmd, NoForced, b, rstate, disk)
    /\ UNCHANGED <<rstate, disk, clock, chk, mb, props, rec, splitMergeLock, mu, rstore>>

----------------------------------------------------------------------------
\* The ephemeral batch, which the apply task uses between application batches
\* to find out which commands will be rejected.

\* NewBatch(true): a copy of the live state and no storage batch.
NewEphemeralBatch ==
    /\ pc = "idle"
    /\ rstate.RaftAppliedIndex < MaxIndex
    /\ mb' = [open |-> TRUE, state |-> rstate, set |-> NoForced]
    /\ pc' = "ephemeral"
    /\ UNCHANGED <<rstate, b, disk, clock, cmds, last, hist, chk, props, rec,
                   splitMergeLock, mu, rstore>>

\* Faulty variant: the batch takes the command's MaxLeaseIndex as its lease
\* applied index, whatever the check returned.
ephemeralStageTakesMaxLeaseIndex(state, cmd) ==
    [state EXCEPT !.LeaseAppliedIndex = cmd.raftCmd.MaxLeaseIndex]

\* Faulty variant: the batch also takes the next raft applied index, as the
\* application batch does.
ephemeralStageAdvancesRaftIndex(state, cmd) ==
    [state EXCEPT !.LeaseAppliedIndex = shouldApplyCommand(cmd, state).leaseIndex,
                  !.RaftAppliedIndex = @ + 1]

\* Faulty variant: the lease index that the check returned is not kept.
ephemeralStageForgetsLeaseIndex(state, cmd) == state

\* ephemeralReplicaAppBatch.Stage on the batch's state: the check is run and
\* the lease index it returns is kept.
ephemeralStage(state, cmd) ==
    [state EXCEPT !.LeaseAppliedIndex = shouldApplyCommand(cmd, state).leaseIndex]

EphemeralStage ==
    /\ pc = "ephemeral"
    /\ \E cmd \in LogCmds :
        mb' = [mb EXCEPT !.state = ephemeralStage(mb.state, cmd),
                         !.set = shouldApplyCommand(cmd, mb.state)]
    /\ UNCHANGED <<rstate, b, disk, clock, pc, cmds, last, hist, chk, props, rec,
                   splitMergeLock, mu, rstore>>

\* ephemeralReplicaAppBatch.ApplyToStateMachine: a panic.
EphemeralApplyToStateMachine ==
    /\ pc = "ephemeral"
    /\ pc' = "crashed"
    /\ UNCHANGED <<rstate, b, disk, clock, cmds, last, hist, chk, mb, props, rec,
                   splitMergeLock, mu, rstore>>

\* ephemeralReplicaAppBatch.Close.
EphemeralClose ==
    /\ pc = "ephemeral"
    /\ mb' = ZeroEphemeralBatch
    /\ pc' = "idle"
    /\ UNCHANGED <<rstate, b, disk, clock, cmds, last, hist, chk, props, rec,
                   splitMergeLock, mu, rstore>>

Next ==
    \/ NewBatch
    \/ Stage
    \/ ApplyToStateMachine
    \/ ApplySideEffects
    \/ Close
    \/ NewEphemeralBatch
    \/ EphemeralStage
    \/ EphemeralApplyToStateMachine
    \/ EphemeralClose

Spec == Init /\ [][Next]_vars

\* The same replica under a log in which proposals are replayed.
InitReplay ==
    /\ splitMergeLock = NoLock
    /\ mu = NoMu
    /\ rstore = NoStore
    /\ \E uask \in BOOLEAN :
        /\ rstate = InitReplicaState(uask)
        /\ hist = MkHist(InitReplicaState(uask), 0, 0)
        /\ disk = InitDisk(uask)
        /\ last = MkLast("none", TRUE, 0, NoCmd, NoForced, ZeroBatch,
                         InitReplicaState(uask), InitDisk(uask))
    /\ b = ZeroBatch
    /\ clock = 0
    /\ pc = "idle"
    /\ cmds = <<>>
    /\ mb = ZeroEphemeralBatch
    /\ props = [NoProps EXCEPT !.replay = TRUE]
    /\ chk = ChkIdle
    /\ rec = NoRec

SpecReplay == InitReplay /\ [][Next]_vars

\* The pipeline on a log with maintenance work.
InitMaintenance ==
    /\ splitMergeLock = NoLock
    /\ mu = NoMu
    /\ rstore = NoStore
    /\ \E uask \in BOOLEAN :
        /\ rstate = InitReplicaState(uask)
        /\ hist = MkHist(InitReplicaState(uask), 0, 0)
        /\ disk = InitDisk(uask)
        /\ last = MkLast("none", TRUE, 0, NoCmd, NoForced, ZeroBatch,
                         InitReplicaState(uask), InitDisk(uask))
    /\ b = ZeroBatch
    /\ clock = 0
    /\ pc = "idle"
    /\ cmds = <<>>
    /\ mb = ZeroEphemeralBatch
    /\ props = [NoProps EXCEPT !.maintenance = TRUE]
    /\ chk = ChkIdle
    /\ rec = NoRec

SpecMaintenance == InitMaintenance /\ [][Next]_vars

\* The pipeline on a log with concurrently proposed lease requests.
InitLeaseRace ==
    /\ splitMergeLock = NoLock
    /\ mu = NoMu
    /\ rstore = NoStore
    /\ \E uask \in BOOLEAN :
        /\ rstate = InitReplicaState(uask)
        /\ hist = MkHist(InitReplicaState(uask), 0, 0)
        /\ disk = InitDisk(uask)
        /\ last = MkLast("none", TRUE, 0, NoCmd, NoForced, ZeroBatch,
                         InitReplicaState(uask), InitDisk(uask))
    /\ b = ZeroBatch
    /\ clock = 0
    /\ pc = "idle"
    /\ cmds = <<>>
    /\ mb = ZeroEphemeralBatch
    /\ props = [NoProps EXCEPT !.leaseRace = TRUE]
    /\ chk = ChkIdle
    /\ rec = NoRec

SpecLeaseRace == InitLeaseRace /\ [][Next]_vars

\* The pipeline on a log with configuration changes.
InitConfChange ==
    /\ splitMergeLock = NoLock
    /\ mu = NoMu
    /\ rstore = NoStore
    /\ \E uask \in BOOLEAN :
        /\ rstate = InitReplicaState(uask)
        /\ hist = MkHist(InitReplicaState(uask), 0, 0)
        /\ disk = InitDisk(uask)
        /\ last = MkLast("none", TRUE, 0, NoCmd, NoForced, ZeroBatch,
                         InitReplicaState(uask), InitDisk(uask))
    /\ b = ZeroBatch
    /\ clock = 0
    /\ pc = "idle"
    /\ cmds = <<>>
    /\ mb = ZeroEphemeralBatch
    /\ props = [NoProps EXCEPT !.confChange = TRUE]
    /\ chk = ChkIdle
    /\ rec = NoRec

SpecConfChange == InitConfChange /\ [][Next]_vars

\* The pipeline on a log with bulk ingestions.
InitIngest ==
    /\ splitMergeLock = NoLock
    /\ mu = NoMu
    /\ rstore = NoStore
    /\ \E uask \in BOOLEAN :
        /\ rstate = InitReplicaState(uask)
        /\ hist = MkHist(InitReplicaState(uask), 0, 0)
        /\ disk = InitDisk(uask)
        /\ last = MkLast("none", TRUE, 0, NoCmd, NoForced, ZeroBatch,
                         InitReplicaState(uask), InitDisk(uask))
    /\ b = ZeroBatch
    /\ clock = 0
    /\ pc = "idle"
    /\ cmds = <<>>
    /\ mb = ZeroEphemeralBatch
    /\ props = [NoProps EXCEPT !.ingest = TRUE]
    /\ chk = ChkIdle
    /\ rec = NoRec

SpecIngest == InitIngest /\ [][Next]_vars

----------------------------------------------------------------------------
\* ApplyToStateMachine statement by statement, next to a reader of r.mu.state.

\* Faulty variant: the lock is taken after the raft applied index is written.
publishStepsLockLate ==
    <<"RaftAppliedIndex", "Lock", "LeaseAppliedIndex", "Stats", "Unlock">>

\* The statements of ApplyToStateMachine that update r.mu.state, in order.
publishSteps ==
    <<"Lock", "RaftAppliedIndex", "LeaseAppliedIndex", "Stats", "Unlock">>

\* ApplyToStateMachine up to the commit of the storage batch.
ApplyCommit ==
    /\ pc = "staging"
    /\ cmds # <<>>
    /\ \E fail \in CommitFailures :
        LET a == addAppliedStateKeyToBatch(b, fail)
            failed == a.err \/ fail = "commit"
        IN  /\ clock' = clockUpdate(clock, b.maxTS)
            /\ b' = IF failed THEN a.b ELSE [a.b EXCEPT !.batch = Nil]
            /\ disk' = IF failed THEN disk ELSE CommitBatch(disk, a.b.batch[1])
            /\ pc' = IF failed THEN "failed" ELSE "publishing"
            /\ mu' = IF failed THEN mu ELSE [mu EXCEPT !.pos = 1]
            /\ last' = [MkLast("ApplyToStateMachine", ~failed, 0, NoCmd, NoForced,
                               b, rstate, disk)
                          EXCEPT !.err = IF failed
                                         THEN Some(applyToStateMachineErr(fail))
                                         ELSE Nil]
            /\ hist' = IF failed THEN hist
                       ELSE [hist EXCEPT !.handleClosed = @ + 1]
    /\ UNCHANGED <<rstate, cmds, chk, mb, props, rec, splitMergeLock, rstore>>

\* The next statement of the update of r.mu.state.
PublishStep ==
    /\ pc = "publishing"
    /\ LET st == publishSteps[mu.pos]
           done == mu.pos = Len(publishSteps)
       IN  /\ rstate' =
                 CASE st = "RaftAppliedIndex" ->
                        [rstate EXCEPT !.RaftAppliedIndex = b.state.RaftAppliedIndex]
                   [] st = "LeaseAppliedIndex" ->
                        [rstate EXCEPT !.LeaseAppliedIndex = b.state.LeaseAppliedIndex]
                   [] st = "Stats" -> [rstate EXCEPT !.Stats = b.state.Stats]
                   [] OTHER -> rstate
           /\ mu' = [mu EXCEPT !.locked = IF st = "Lock" THEN TRUE
                                          ELSE IF st = "Unlock" THEN FALSE ELSE @,
                               !.pos = IF done THEN 0 ELSE @ + 1]
           /\ pc' = IF done THEN "applied" ELSE pc
    /\ UNCHANGED <<b, disk, clock, cmds, last, hist, chk, mb, props, rec,
                   splitMergeLock, rstore>>

\* A reader on another goroutine takes r.mu.RLock(), which the writer's lock
\* excludes, and copies r.mu.state.
ReadState ==
    /\ ~mu.locked
    /\ pc \in {"staging", "publishing", "applied", "failed"}
    /\ mu' = [mu EXCEPT !.snap = Some(rstate)]
    /\ UNCHANGED <<rstate, b, disk, clock, pc, cmds, last, hist, chk, mb, props,
                   rec, splitMergeLock, rstore>>

NextPublish ==
    \/ NewBatch
    \/ Stage
    \/ ApplyCommit
    \/ PublishStep
    \/ ReadState
    \/ ApplySideEffects
    \/ Close

SpecPublish == InitMaintenance /\ [][NextPublish]_vars

\* The application batch with Close called at any time.
NextClose ==
    \/ NewBatch
    \/ Stage
    \/ ApplyToStateMachine
    \/ ApplySideEffects
    \/ CloseAnytime

SpecClose == Init /\ [][NextClose]_vars

----------------------------------------------------------------------------
\* Crash and restart. The commit of a batch is not synced: a crash after it
\* either keeps the whole storage batch or loses the whole of it.

\* The applied-state record the engine holds: the RangeAppliedState key when
\* it is there, the legacy applied-index and stats keys otherwise.
DiskApplied(d) ==
    IF d.ras # Nil THEN d.ras[1]
    ELSE [raft |-> d.legacyIdx[1][1], lease |-> d.legacyIdx[1][2],
          stats |-> d.legacyMS[1]]

\* The state a restarted replica loads: the applied indexes and the stats come
\* from the applied-state record, the rest from the range's other keys.
Load(base, d) ==
    [base EXCEPT !.RaftAppliedIndex = DiskApplied(d).raft,
                 !.LeaseAppliedIndex = DiskApplied(d).lease,
                 !.Stats = DiskApplied(d).stats,
                 !.GCThreshold = d.gc,
                 !.UsingAppliedStateKey = (d.ras # Nil)]

\* The process dies after the last batch was applied and closed. Its memory
\* is gone; the engine has the batch's commit or has lost it, and with it the
\* keys that the batch's commands wrote (lease, GC threshold).
Crash ==
    /\ rec.on
    /\ rec.phase = "clean"
    /\ pc = "idle"
    /\ rec.log # <<>>
    /\ \E lost \in BOOLEAN :
        /\ disk' = IF lost THEN rec.disk0[1] ELSE disk
        /\ rec' = [rec EXCEPT !.phase = "down",
                              !.clean = Some(rstate),
                              !.base = Some(IF lost THEN hist.live0 ELSE rstate)]
    /\ rstate' = ZeroReplicaState
    /\ props' = [NoProps EXCEPT !.replay = props.replay]
    /\ pc' = "down"
    /\ UNCHANGED <<b, clock, cmds, last, hist, chk, mb, splitMergeLock, mu, rstore>>

\* The replica is loaded from the engine, and the entries of the log above
\* its applied index are applied again.
Restart ==
    /\ pc = "down"
    /\ LET st == Load(rec.base[1], disk)
       IN  /\ rstate' = st
           /\ rec' = [rec EXCEPT
                        !.phase = "replay",
                        !.pos = 1 + Cardinality(
                                    { i \in 1..Len(rec.log) :
                                        rec.log[i].idx <= st.RaftAppliedIndex })]
    /\ pc' = "idle"
    /\ UNCHANGED <<b, disk, clock, cmds, last, hist, chk, mb, props,
                   splitMergeLock, mu, rstore>>

InitRestart ==
    /\ \E uask \in BOOLEAN : InitMain(uask)
    /\ chk = ChkIdle
    /\ rec = [NoRec EXCEPT !.on = TRUE]

NextRestart ==
    \/ NewBatch
    \/ Stage
    \/ ApplyToStateMachine
    \/ ApplySideEffects
    \/ Close
    \/ Crash
    \/ Restart

SpecRestart == InitRestart /\ [][NextRestart]_vars

----------------------------------------------------------------------------
\* checkForcedErr on its own: the inputs are drawn in the initial state and
\* one step applies the function; the replica's live state then moves on and
\* the function is applied to the same inputs once more.

\* Current leases: either sequence, expiring at 1 or 2, proposed at 1 by store 1.
ChkCurLeases == { MkLease(seq, 1, 1, exp) : seq \in LeaseSeqs, exp \in 1..2 }

\* Requested leases: for a store in the range (1, 2) or outside it (3).
ChkReqLeases ==
    { MkLease(seq, 2, store, exp) :
        seq \in LeaseSeqs, store \in 1..3, exp \in 1..2 }

ChkReplicaStates ==
    { MkReplicaState(0, lai, l, InitDesc, gc, MkStats(0, 0), FALSE) :
        lai \in 0..MaxLeaseIndex, l \in ChkCurLeases, gc \in 0..MaxTS }

\* The lease-related part of a command: proposed under a lease sequence, as a
\* lease request or not, or carrying the proposer's lease itself.
ChkLeaseParts ==
    { [pls |-> pls, dep |-> Nil, isLease |-> FALSE, st |-> Nil, prev |-> Nil] :
        pls \in LeaseSeqs }
    \cup
    { [pls |-> pls, dep |-> Nil, isLease |-> TRUE,
       st |-> Some(MkResState(Some(l), Nil, FALSE)), prev |-> prev] :
        pls \in LeaseSeqs, l \in ChkReqLeases, prev \in {Nil, Some(1), Some(2)} }
    \cup
    { [pls |-> 0, dep |-> Some(l), isLease |-> FALSE, st |-> Nil, prev |-> Nil] :
        l \in { MkLease(1, 1, 1, 1), MkLease(1, 1, 1, 2), MkLease(1, 1, 2, 1) } }

ChkRaftCmds ==
    { MkRaftCmd(mli, lp.pls, lp.dep, MkRER(lp.isLease, ts, 0, lp.st, lp.prev),
                TRUE, TRUE) :
        mli \in 0..MaxLeaseIndex, ts \in 0..MaxTS, lp \in ChkLeaseParts }

\* A command without an id is no proposal, so it is never local.
ChkIds == { <<"", FALSE>>, <<"k", FALSE>>, <<"k", TRUE>> }

InitCheck ==
    /\ InitMain(FALSE)
    /\ \E id \in ChkIds, rc \in ChkRaftCmds, rs \in ChkReplicaStates :
        chk = [pc |-> "in", idKey |-> id[1], isLocal |-> id[2], raftCmd |-> rc,
               rs |-> rs, out |-> NoForced, again |-> NoForced,
               stage |-> NoStage]
    /\ rec = NoRec

CheckForcedErrCall ==
    /\ chk.pc = "in"
    /\ chk' = [chk EXCEPT
                 !.pc = "out",
                 !.out = checkForcedErr(chk.idKey, chk.raftCmd, chk.isLocal, chk.rs)]
    /\ UNCHANGED <<rstate, b, disk, clock, pc, cmds, last, hist, mb, props, rec,
                   splitMergeLock, mu, rstore>>

\* Between two calls the replica applies other batches: its live applied
\* lease index and GC threshold move up.
ReplicaMoves ==
    /\ chk.pc = "out"
    /\ \E gc \in {rstate.GCThreshold, MaxTS} :
        rstate' = [rstate EXCEPT !.LeaseAppliedIndex = MaxLeaseIndex,
                                 !.GCThreshold = gc]
    /\ clock' = MaxTS
    /\ chk' = [chk EXCEPT !.pc = "moved"]
    /\ UNCHANGED <<b, disk, pc, cmds, last, hist, mb, props, rec,
                   splitMergeLock, mu, rstore>>

CheckForcedErrAgain ==
    /\ chk.pc = "moved"
    /\ chk' = [chk EXCEPT
                 !.pc = "again",
                 !.again = checkForcedErr(chk.idKey, chk.raftCmd, chk.isLocal, chk.rs)]
    /\ UNCHANGED <<rstate, b, disk, clock, pc, cmds, last, hist, mb, props, rec,
                   splitMergeLock, mu, rstore>>

\* The batch that the stand-alone Stage call works on: a fresh batch over the
\* replica state of the inputs.
ChkBatch == NewBatchState(chk.rs)

\* Stage of the same command, as the next entry, on a fresh batch over the
\* same replica state.
StageCall ==
    /\ chk.pc = "out"
    /\ chk' = [chk EXCEPT
                 !.pc = "staged",
                 !.stage = StageBatch(ChkBatch,
                                      MkCmd(chk.idKey, chk.isLocal, chk.raftCmd),
                                      chk.rs.RaftAppliedIndex + 1, FALSE, FALSE)]
    /\ UNCHANGED <<rstate, b, disk, clock, pc, cmds, last, hist, mb, props, rec,
                   splitMergeLock, mu, rstore>>

NextCheck ==
    \/ CheckForcedErrCall
    \/ ReplicaMoves
    \/ CheckForcedErrAgain
    \/ StageCall

SpecCheck == InitCheck /\ [][NextCheck]_vars

----------------------------------------------------------------------------
\* An application batch and an ephemeral batch side by side: both are created
\* over the same replica state and staged with the same commands.

\* The replica states both batches start from.
SideBySideStates ==
    { [InitReplicaState(FALSE) EXCEPT !.LeaseAppliedIndex = lai,
                                      !.GCThreshold = gc] :
        lai \in 0..1, gc \in 0..1 }

InitSideBySide ==
    /\ splitMergeLock = NoLock
    /\ mu = NoMu
    /\ rstore = NoStore
    /\ \E rs \in SideBySideStates :
        /\ rstate = rs
        /\ hist = MkHist(rs, 0, 0)
        /\ b = NewBatchState(rs)
        /\ mb = [open |-> TRUE, state |-> rs, set |-> NoForced]
        /\ last = MkLast("NewBatch", TRUE, 0, NoCmd, NoForced, ZeroBatch, rs,
                         InitDisk(FALSE))
    /\ disk = InitDisk(FALSE)
    /\ clock = 0
    /\ pc = "staging"
    /\ cmds = <<>>
    /\ props = NoProps
    /\ chk = ChkIdle
    /\ rec = NoRec

\* The next entry is staged in both batches. A sequence is at most MaxBatch
\* commands long; it ends when the application batch fails.
StageBoth ==
    /\ pc = "staging"
    /\ Len(cmds) < MaxBatch
    /\ \E cmd \in Cmds :
        LET r == StageBatch(b, cmd, b.state.RaftAppliedIndex + 1, FALSE, FALSE)
        IN  /\ b' = r.b
            /\ rstate' = liveAfterStage(rstate, r.b)
            /\ cmds' = IF r.out = "ok" THEN Append(cmds, r.checked[1]) ELSE cmds
            /\ pc' = CASE r.out = "ok" -> "staging"
                       [] r.out = "err" -> "failed"
                       [] OTHER -> "crashed"
            /\ last' = MkLast("Stage", r.out = "ok", b.state.RaftAppliedIndex + 1,
                              cmd, r.forced, b, rstate, disk)
            /\ splitMergeLock' = IF r.locked
                                 THEN [splitMergeLock EXCEPT
                                         !.held = TRUE, !.acquired = @ + 1]
                                 ELSE splitMergeLock
            /\ mb' = [mb EXCEPT !.state = ephemeralStage(mb.state, cmd),
                                !.set = shouldApplyCommand(cmd, mb.state)]
    /\ UNCHANGED <<disk, clock, hist, chk, props, rec, mu, rstore>>

NextSideBySide == StageBoth

SpecSideBySide == InitSideBySide /\ [][NextSideBySide]_vars

----------------------------------------------------------------------------
\* Properties.

\* The last operation was a Stage call whose entry index was out of order.
StageOutOfOrder ==
    /\ last.op = "Stage"
    /\ last.idx = 0 \/ last.idx # last.preB.state.RaftAppliedIndex + 1

\* The last operation was a Stage call that got past the index checks.
StageRan ==
    /\ last.op = "Stage"
    /\ last.idx # 0
    /\ last.idx = last.preB.state.RaftAppliedIndex + 1

\* What the force-error check says of the last command against the state the
\* batch had before the call.
LastCheck ==
    checkForcedErr(last.cmd.idKey, last.cmd.raftCmd, last.cmd.isLocal,
                   last.preB.state)

\* The command was proposed under the lease that replicaState holds.
LeaseMatches(raftCmd, replicaState) ==
    IF raftCmd.DeprecatedProposerLease # Nil
    THEN Equivalent(raftCmd.DeprecatedProposerLease[1], replicaState.Lease)
    ELSE raftCmd.ProposerLeaseSequence = replicaState.Lease.Sequence

\* C1: once a batch in which N Stage calls succeeded is committed, the live
\* raft applied index is N above its value at NewBatch, however many of the N
\* commands were rejected.
C1_CommitAdvancesIndexByStaged ==
    (last.op = "ApplyToStateMachine" /\ last.ok) =>
        rstate.RaftAppliedIndex = hist.live0.RaftAppliedIndex + hist.staged

\* A committed batch of two or more commands, some rejected and some not.
C1_Witness ==
    /\ last.op = "ApplyToStateMachine"
    /\ last.ok
    /\ hist.staged >= 2
    /\ hist.rejected >= 1
    /\ hist.rejected < hist.staged

\* C2: Stage succeeds only for a non-zero entry index that is the batch's
\* applied index plus one; for any other index it returns a failure and
\* leaves the batch (working state, staged writes), the engine and the live
\* state as they were.
C2_StageRefusesOutOfOrderIndex ==
    /\ (last.op = "Stage" /\ last.ok) => StageRan
    /\ StageOutOfOrder =>
        /\ ~last.ok
        /\ pc = "failed"
        /\ b = last.preB
        /\ disk = last.preDisk
        /\ rstate = last.preLive

\* An index that skips one is refused by a batch that already holds a command.
C2_Witness ==
    /\ StageOutOfOrder
    /\ last.idx = last.preB.state.RaftAppliedIndex + 2
    /\ ~last.ok
    /\ Len(cmds) >= 1
    /\ last.preB.state # last.preLive

C5_RejectedCommandIsWiped ==
    (StageRan /\ LastCheck.err # ErrNil) =>
        /\ last.ok
        /\ pc = "staging"
        /\ LET c == cmds[Len(cmds)]
           IN  /\ c.idx = last.idx
               /\ c.forcedErr = LastCheck.err
               /\ c.raftCmd.ReplicatedEvalResult = EmptyRER
               /\ ~c.raftCmd.WriteBatch
               /\ ~c.raftCmd.LogicalOpLog
        /\ b.batch = last.preB.batch
        /\ b.state.RaftAppliedIndex = last.preB.state.RaftAppliedIndex + 1

\* A rejected command that came with a write batch, an op log and a delta.
C5_Witness ==
    /\ StageRan
    /\ LastCheck.err # ErrNil
    /\ last.ok
    /\ last.cmd.raftCmd.WriteBatch
    /\ last.cmd.raftCmd.LogicalOpLog
    /\ last.cmd.raftCmd.ReplicatedEvalResult.Delta > 0

\* C6 as stated: staging a rejected command, whatever the rejection, changes
\* nothing of the working state but the raft applied index.
C6_RejectionChangesOnlyRaftIndex ==
    (StageRan /\ LastCheck.err # ErrNil) =>
        b.state = [last.preB.state EXCEPT !.RaftAppliedIndex = last.idx]

\* C6 as amended: staging a rejected command leaves the working stats (and
\* everything but the two applied indexes) unchanged; the lease applied index
\* is unchanged too, except that a command other than a lease request that is
\* rejected for its timestamp has passed the lease-index check and moves the
\* lease applied index to its MaxLeaseIndex.
C6_RejectionKeepsStats ==
    (StageRan /\ LastCheck.err # ErrNil) =>
        b.state =
            [last.preB.state EXCEPT
                !.RaftAppliedIndex = last.idx,
                !.LeaseAppliedIndex =
                    IF /\ LastCheck.err = ErrBeforeGC
                       /\ ~last.cmd.raftCmd.ReplicatedEvalResult.IsLeaseRequest
                    THEN last.cmd.raftCmd.MaxLeaseIndex
                    ELSE @]

\* A write rejected for its timestamp whose MaxLeaseIndex is ahead of the
\* batch's lease applied index.
C6_Witness ==
    /\ StageRan
    /\ LastCheck.err = ErrBeforeGC
    /\ ~last.cmd.raftCmd.ReplicatedEvalResult.IsLeaseRequest
    /\ last.cmd.raftCmd.ReplicatedEvalResult.Delta > 0
    /\ b.state.LeaseAppliedIndex > last.preB.state.LeaseAppliedIndex

\* The case of C7: a command with an id that is no lease request, proposed
\* under the current lease, ahead of the lease applied index and above the
\* GC threshold.
C7_Case ==
    /\ StageRan
    /\ last.cmd.idKey # ""
    /\ ~last.cmd.raftCmd.ReplicatedEvalResult.IsLeaseRequest
    /\ LeaseMatches(last.cmd.raftCmd, last.preB.state)
    /\ last.cmd.raftCmd.MaxLeaseIndex > last.preB.state.LeaseAppliedIndex
    /\ last.preB.state.GCThreshold < last.cmd.raftCmd.ReplicatedEvalResult.Timestamp

ChkDone == chk.pc = "out"

\* The stand-alone call's command is no lease request, was proposed under the
\* current lease and is at or behind the lease applied index.
ChkAtPastLeaseIndex ==
    /\ ~chk.raftCmd.ReplicatedEvalResult.IsLeaseRequest
    /\ LeaseMatches(chk.raftCmd, chk.rs)
    /\ chk.raftCmd.MaxLeaseIndex <= chk.rs.LeaseAppliedIndex

\* C8: a command at a past lease index is rejected, with the illegal-lease-
\* index retry reason exactly when it is local; every other outcome carries
\* no retry reason.
C8_RetryOnlyForLocalPastIndex ==
    ChkDone =>
        IF ChkAtPastLeaseIndex
        THEN /\ chk.out.err # ErrNil
             /\ chk.out.retry = proposalIllegalLeaseIndex <=> chk.isLocal
        ELSE chk.out.retry = proposalNoReevaluation

\* A local command at a past lease index is told to retry.
C8_Witness ==
    /\ ChkDone
    /\ ChkAtPastLeaseIndex
    /\ chk.isLocal
    /\ chk.out.retry = proposalIllegalLeaseIndex
    /\ chk.out.err = ErrIllegalLeaseIndex

\* The case of C9: a command with an id and no legacy lease value whose
\* proposer lease sequence is not the current lease's.
C9_Case ==
    /\ ChkDone
    /\ chk.idKey # ""
    /\ chk.raftCmd.DeprecatedProposerLease = Nil
    /\ chk.raftCmd.ProposerLeaseSequence # chk.rs.Lease.Sequence

\* C9: such a command is rejected, a lease request as lease-rejected and any
\* other command as not-leaseholder, and the lease index returned is the
\* current lease applied index.
C9_SequenceMismatchRejected ==
    C9_Case =>
        /\ chk.out.err =
            IF chk.raftCmd.ReplicatedEvalResult.IsLeaseRequest
            THEN ErrLeaseRejectedInvalid ELSE ErrNotLeaseHolder
        /\ chk.out.leaseIndex = chk.rs.LeaseAppliedIndex

\* A lease request proposed under another lease sequence, ahead of the lease
\* applied index.
C9_Witness ==
    /\ C9_Case
    /\ chk.raftCmd.ReplicatedEvalResult.IsLeaseRequest
    /\ chk.raftCmd.MaxLeaseIndex > chk.rs.LeaseAppliedIndex
    /\ chk.out.err = ErrLeaseRejectedInvalid

\* The stand-alone call's command, no lease request, passes the lease check
\* and the lease-index check.
ChkPassesLeaseAndOrdering ==
    /\ chk.idKey # ""
    /\ ~chk.raftCmd.ReplicatedEvalResult.IsLeaseRequest
    /\ LeaseMatches(chk.raftCmd, chk.rs)
    /\ chk.rs.LeaseAppliedIndex < chk.raftCmd.MaxLeaseIndex

\* C10: an accepted command other than a lease request has a timestamp above
\* the GC threshold, and one that passes the lease and lease-index checks
\* with a timestamp at or below the threshold is rejected as before-GC.
C10_AcceptedAboveGCThreshold ==
    ChkDone =>
        /\ (chk.out.err = ErrNil /\ ~chk.raftCmd.ReplicatedEvalResult.IsLeaseRequest)
            => chk.rs.GCThreshold < chk.raftCmd.ReplicatedEvalResult.Timestamp
        /\ (/\ ChkPassesLeaseAndOrdering
            /\ chk.raftCmd.ReplicatedEvalResult.Timestamp <= chk.rs.GCThreshold)
            => chk.out.err = ErrBeforeGC

\* A command exactly at a non-zero GC threshold is rejected.
C10_Witness ==
    /\ ChkDone
    /\ ChkPassesLeaseAndOrdering
    /\ chk.rs.GCThreshold > 0
    /\ chk.raftCmd.ReplicatedEvalResult.Timestamp = chk.rs.GCThreshold
    /\ chk.out.err = ErrBeforeGC

\* C11: a command with an empty id is rejected as an empty entry whatever its
\* lease sequence, lease index and timestamp; the check returns the current
\* lease applied index and no retry reason, and staging the command changes
\* nothing of the batch's working state and staged writes but the raft
\* applied index.
C11_EmptyIdIsNoOp ==
    (chk.pc = "staged" /\ chk.idKey = "") =>
        /\ chk.out = MkForced(chk.rs.LeaseAppliedIndex, proposalNoReevaluation,
                              ErrEmptyEntry)
        /\ chk.stage.out = "ok"
        /\ chk.stage.forced = chk.out
        /\ chk.stage.b.state =
            [chk.rs EXCEPT !.RaftAppliedIndex = chk.rs.RaftAppliedIndex + 1]
        /\ chk.stage.b.batch = ChkBatch.batch
        /\ chk.stage.b.maxTS = ChkBatch.maxTS
        /\ chk.stage.b.migrateToAppliedStateKey = ChkBatch.migrateToAppliedStateKey

\* An empty-id command that would otherwise fail the lease check, and one that
\* would otherwise be accepted at a higher lease index.
C11_Witness ==
    /\ chk.pc = "staged"
    /\ chk.idKey = ""
    /\ chk.raftCmd.ProposerLeaseSequence # chk.rs.Lease.Sequence
    /\ chk.raftCmd.MaxLeaseIndex > chk.rs.LeaseAppliedIndex
    /\ chk.raftCmd.ReplicatedEvalResult.Timestamp > chk.rs.GCThreshold
    /\ chk.stage.out = "ok"

\* sm.batch is in use from NewBatch to Close.
BatchInUse(p) == p \in {"staging", "applied", "failed", "crashed"}

\* C12: no step lowers the live raft applied index or lease applied index, and
\* no step lowers either index of the working state of an application batch or
\* of an ephemeral batch while that batch is in use (NewBatch to Close).
C12_IndexesNeverDecrease ==
    [][ /\ rstate'.RaftAppliedIndex >= rstate.RaftAppliedIndex
        /\ rstate'.LeaseAppliedIndex >= rstate.LeaseAppliedIndex
        /\ (BatchInUse(pc) /\ BatchInUse(pc')) =>
            /\ b'.state.RaftAppliedIndex >= b.state.RaftAppliedIndex
            /\ b'.state.LeaseAppliedIndex >= b.state.LeaseAppliedIndex
        /\ (mb.open /\ mb'.open) =>
            /\ mb'.state.RaftAppliedIndex >= mb.state.RaftAppliedIndex
            /\ mb'.state.LeaseAppliedIndex >= mb.state.LeaseAppliedIndex
      ]_vars

\* An ephemeral batch, opened after a commit has moved the live indexes, whose
\* lease applied index has run ahead of the live one.
C12_Witness ==
    /\ pc = "ephemeral"
    /\ mb.open
    /\ rstate.RaftAppliedIndex > 0
    /\ rstate.LeaseAppliedIndex > InitReplicaState(FALSE).LeaseAppliedIndex
    /\ mb.state.LeaseAppliedIndex > rstate.LeaseAppliedIndex

SideEffectsDone == last.op = "ApplySideEffects" /\ last.ok

\* C14 as stated: when ApplySideEffects has returned for a command, the
\* command's replicated result is the empty one.
C14_ResultEmptyAfterSideEffects ==
    SideEffectsDone => last.res = EmptyRER

\* C14 as amended: when ApplySideEffects has returned for a command, the
\* trivial fields of the command's replicated result are cleared and every
\* field of its State has been consumed and cleared; the result is the empty
\* one for a trivial or rejected command, and for a command with non-trivial
\* effects it keeps what the handlers cleared in their copy only (here the
\* State pointer).
C14_ResultConsumedAfterSideEffects ==
    SideEffectsDone =>
        LET before == last.cmd.raftCmd.ReplicatedEvalResult
            nonTrivial == ~IsTrivial(before)
        IN  /\ ~last.res.IsLeaseRequest
            /\ last.res.Timestamp = 0
            /\ last.res.Delta = 0
            /\ last.res.PrevLeaseProposal = Nil
            /\ last.res.State \in {Nil, Some(MkResState(Nil, Nil, FALSE))}
            /\ last.res = EmptyRER <=> ~nonTrivial
            /\ last.forced.err # ErrNil => last.res = EmptyRER

\* ApplySideEffects has returned for an accepted GC request: the threshold is
\* in the live state and the command's result still has its State.
C14_Witness ==
    /\ SideEffectsDone
    /\ last.forced.err = ErrNil
    /\ last.cmd.raftCmd.ReplicatedEvalResult.Delta = 0
    /\ IF last.cmd.raftCmd.ReplicatedEvalResult.State = Nil THEN FALSE
       ELSE last.cmd.raftCmd.ReplicatedEvalResult.State[1].GCThreshold = Some(1)
    /\ rstate.GCThreshold = 1
    /\ last.res.State # Nil

\* The engine batch holds no write to a legacy key.
NoLegacyWrite(eng) ==
    /\ ~eng.delLegacy
    /\ eng.legacyIdx = Nil
    /\ eng.legacyMS = Nil

\* C15: once the live state says the range uses the RangeAppliedState key,
\* the flag stays set, the engine holds the combined record and neither
\* legacy record, and a batch opened from then on neither starts the
\* migration nor stages a write to a legacy key.
C15_MigrationIsOneWay ==
    /\ [](rstate.UsingAppliedStateKey =>
            /\ disk.legacyIdx = Nil
            /\ disk.legacyMS = Nil
            /\ disk.ras # Nil
            /\ pc \in {"staging", "failed"} =>
                /\ b.state.UsingAppliedStateKey
                /\ ~b.migrateToAppliedStateKey
                /\ IF b.batch = Nil THEN TRUE ELSE NoLegacyWrite(b.batch[1]))
    /\ [][rstate.UsingAppliedStateKey => rstate'.UsingAppliedStateKey]_vars

\* A commit on a range that uses the key already, of a command that asks for
\* the key.
C15_Witness ==
    /\ last.op = "ApplyToStateMachine"
    /\ last.ok
    /\ last.preLive.UsingAppliedStateKey
    /\ Len(cmds) = 1
    /\ cmds[1].forcedErr = ErrNil
    /\ IF cmds[1].raftCmd.ReplicatedEvalResult.State = Nil THEN FALSE
       ELSE cmds[1].raftCmd.ReplicatedEvalResult.State[1].UsingAppliedStateKey
    /\ disk.ras = Some(MkRAS(rstate))

\* The two applied-state layouts on the engine.
LegacyLayout(d) == d.legacyIdx # Nil /\ d.legacyMS # Nil /\ d.ras = Nil
CombinedLayout(d) == d.legacyIdx = Nil /\ d.legacyMS = Nil /\ d.ras # Nil

\* C16: the engine holds exactly one applied-state layout, the two legacy
\* records or the combined record; the commit of a batch that migrates takes
\* the engine from the legacy layout to the combined one in one step.
C16_ExactlyOneLayout ==
    /\ LegacyLayout(disk) \/ CombinedLayout(disk)
    /\ (/\ last.op = "ApplyToStateMachine"
        /\ last.ok
        /\ last.preB.migrateToAppliedStateKey) =>
            /\ LegacyLayout(last.preDisk)
            /\ CombinedLayout(disk)
            /\ disk.ras = Some(MkRAS(rstate))

\* The commit of a migrating batch.
C16_Witness ==
    /\ last.op = "ApplyToStateMachine"
    /\ last.ok
    /\ last.preB.migrateToAppliedStateKey
    /\ last.preDisk.legacyIdx # Nil
    /\ disk.legacyIdx = Nil
    /\ disk.ras # Nil
    /\ disk.data # {}

----------------------------------------------------------------------------
\* The replay after a restart has come to its end: every entry of the last
\* batch above the loaded applied index was staged again and its batch closed.
ReplayDone == rec.phase = "replay" /\ rec.pos > Len(rec.log) /\ pc = "idle"

\* The entries of the last batch that the engine's applied-state record covers.
CoveredEntries(d) ==
    { i \in 1..Len(rec.log) : rec.log[i].idx <= DiskApplied(d).raft }

\* The three fields of a ReplicaState that the applied-state record holds.
AppliedPart(st) == <<st.RaftAppliedIndex, st.LeaseAppliedIndex, st.Stats>>

\* C17: after a crash the engine holds the last batch whole or not at all
\* (its record covers every entry of the batch or none, and no write of an
\* entry the record does not cover); no entry is staged whose writes the
\* engine already holds; and once the entries above the loaded applied index
\* have been applied again, the raft applied index, the lease applied index
\* and the stats are those the clean application ended in.
C17_RestartReplayIsIdempotent ==
    /\ pc = "down" =>
          /\ CoveredEntries(disk) \in { {}, 1..Len(rec.log) }
          /\ \A i \in 1..Len(rec.log) :
                rec.log[i].idx \in disk.data => i \in CoveredEntries(disk)
    /\ rec.phase = "replay" /\ b.batch # Nil =>
          b.batch[1].data \cap disk.data = {}
    /\ ReplayDone => AppliedPart(rstate) = AppliedPart(rec.clean[1])

\* C17 witness: the commit of a batch of two entries, one of them accepted
\* with its write, was lost in the crash, and both entries have been applied
\* again.
C17_Witness ==
    /\ ReplayDone
    /\ Len(rec.log) = 2
    /\ rec.base[1].RaftAppliedIndex < rec.clean[1].RaftAppliedIndex
    /\ rec.clean[1].Stats.LiveBytes > rec.base[1].Stats.LiveBytes
    /\ disk.data # {}

----------------------------------------------------------------------------
\* The batch has just been committed: cmds holds every command staged in it.
JustCommitted == last.op = "ApplyToStateMachine" /\ last.ok

\* The command, as staged, has an effect that staging does not absorb: a new
\* lease, a split, a merge, a GC threshold or the adoption of the
\* RangeAppliedState key.
HasNonTrivialEffect(c) ==
    LET res == c.raftCmd.ReplicatedEvalResult
    IN  \/ res.IsLeaseRequest
        \/ res.Split
        \/ res.Merge
        \/ IF res.State = Nil THEN FALSE
           ELSE \/ res.State[1].Lease # Nil
                \/ res.State[1].GCThreshold # Nil
                \/ res.State[1].UsingAppliedStateKey

\* C18: a batch that is committed holds exactly one command, or only commands
\* that were trivial when they were decoded and that have no non-trivial
\* effect as staged.
C18_NonTrivialCommandIsAlone ==
    JustCommitted =>
        \/ Len(cmds) = 1
        \/ \A i \in 1..Len(cmds) : cmds[i].trivial /\ ~HasNonTrivialEffect(cmds[i])

\* C18 witness: the commit of a batch of one accepted non-trivial command at
\* index 3, after two writes were applied.
C18_Witness ==
    /\ JustCommitted
    /\ Len(cmds) = 1
    /\ ~cmds[1].trivial
    /\ HasNonTrivialEffect(cmds[1])
    /\ cmds[1].idx = 3
    /\ hist.live0.Stats.LiveBytes = 2

----------------------------------------------------------------------------
\* The step is a Stage call that returns a checked command.
StageReturns == hist'.staged = hist.staged + 1

\* The step is an ApplySideEffects call.
SideEffectsDispatched == pc = "applied" /\ last'.op = "ApplySideEffects"

\* C19: a command returned by Stage has a higher entry index than the one
\* returned before it; ApplySideEffects is called on a command that was
\* staged, whose entry index is higher than that of the command dispatched
\* before it, and whose batch has been committed: the storage batch is gone
\* and the engine's applied-state record stands at the batch's last entry.
C19_SideEffectsAfterCommitInLogOrder ==
    [][ /\ StageReturns =>
              /\ hist'.stagedIdx = last'.idx
              /\ hist'.stagedIdx > hist.stagedIdx
        /\ SideEffectsDispatched =>
              /\ last'.idx > hist.dispatchedIdx
              /\ last'.idx <= hist.stagedIdx
              /\ b.batch = Nil
              /\ DiskApplied(disk).raft = hist.stagedIdx
              /\ rstate.RaftAppliedIndex = hist.stagedIdx ]_vars

\* C19 witness: the two commands of a committed batch, staged after an
\* earlier batch, have both been handed to ApplySideEffects.
C19_Witness ==
    /\ last.op = "ApplySideEffects"
    /\ hist.staged = 2
    /\ hist.live0.RaftAppliedIndex = 1
    /\ hist.dispatchedIdx = 3
    /\ cmds = <<>>

----------------------------------------------------------------------------
\* The command, as decoded, carries a split or a merge.
IsSplitOrMerge(cmd) ==
    cmd.raftCmd.ReplicatedEvalResult.Split \/ cmd.raftCmd.ReplicatedEvalResult.Merge

\* The staged commands of the batch that hold the unlock function.
LockHolders == { i \in 1..Len(cmds) : cmds[i].splitMergeUnlock }

\* C20: while a batch is staged, committed and its side effects run, the
\* partner range's lock is held exactly when a command that is staged and
\* not yet through ApplySideEffects holds its unlock function; that command
\* is one, and it was accepted; the lock has been released once for every
\* acquisition that is not held any more; a Stage call that rejects a split
\* or a merge leaves the lock free and not acquired; and when ApplySideEffects
\* has returned for an accepted split or merge the lock is free and was
\* released in that call.
C20_SplitMergeLockHeldUntilSideEffects ==
    /\ pc \in {"staging", "applied"} =>
          /\ splitMergeLock.held <=> LockHolders # {}
          /\ Cardinality(LockHolders) <= 1
          /\ \A i \in LockHolders : cmds[i].forcedErr = ErrNil
    /\ splitMergeLock.acquired =
          splitMergeLock.released + (IF splitMergeLock.held THEN 1 ELSE 0)
    /\ last.op = "Stage" /\ last.forced.err # ErrNil /\ IsSplitOrMerge(last.cmd) =>
          /\ ~splitMergeLock.held
          /\ splitMergeLock.acquired = last.preLock.acquired
    /\ last.op = "ApplySideEffects" /\ last.ok /\ IsSplitOrMerge(last.cmd) =>
          /\ ~splitMergeLock.held
          /\ splitMergeLock.released = last.preLock.released + 1

\* C20 witness: an accepted split was staged in a batch of its own, the batch
\* was committed with the lock held, and ApplySideEffects has returned for it.
C20_Witness ==
    /\ last.op = "ApplySideEffects"
    /\ last.ok
    /\ last.cmd.raftCmd.ReplicatedEvalResult.Split
    /\ last.forced.err = ErrNil
    /\ splitMergeLock = [held |-> FALSE, acquired |-> 1, released |-> 1]

----------------------------------------------------------------------------
\* C21: a step taken while the ephemeral batch is in use leaves the engine,
\* the live replica state, the application batch and the node clock as they
\* were; when the batch stays in use (a Stage call) its state differs from the
\* one before in the lease applied index at most, and no failure is returned;
\* and a step that commits the batch ends in a panic with the batch untouched.
C21_EphemeralBatchWritesNothing ==
    [][ pc = "ephemeral" =>
          /\ disk' = disk
          /\ rstate' = rstate
          /\ b' = b
          /\ clock' = clock
          /\ pc' \in {"ephemeral", "idle", "crashed"}
          /\ pc' = "ephemeral" =>
                /\ mb'.open
                /\ mb'.state = [mb.state EXCEPT !.LeaseAppliedIndex =
                                                   mb'.state.LeaseAppliedIndex]
          /\ pc' = "crashed" => mb' = mb ]_vars

\* C21 witness: an ephemeral batch staged a command that moved its lease
\* applied index past the live one, and was then handed to ApplyToStateMachine.
C21_Witness ==
    /\ pc = "crashed"
    /\ mb.open
    /\ mb.state.LeaseAppliedIndex > rstate.LeaseAppliedIndex
    /\ mb.state.RaftAppliedIndex = rstate.RaftAppliedIndex

----------------------------------------------------------------------------
\* C22: whenever the application batch has staged a command, the ephemeral
\* batch that was staged with the same commands from the same replica state
\* has set the same forced error, retry reason and lease index on it, and the
\* two batches stand at the same lease applied index.
C22_EphemeralBatchDecidesAlike ==
    last.op = "Stage" /\ last.ok =>
        /\ mb.set = last.forced
        /\ mb.state.LeaseAppliedIndex = b.state.LeaseAppliedIndex

\* C22 witness: both batches accepted a first command and rejected a second
\* one for its lease index, which the starting state would have let pass.
C22_Witness ==
    /\ last.op = "Stage"
    /\ last.ok
    /\ Len(cmds) = 2
    /\ cmds[1].forcedErr = ErrNil
    /\ cmds[2].forcedErr = ErrIllegalLeaseIndex
    /\ mb.set.err = ErrIllegalLeaseIndex
    /\ cmds[2].raftCmd.MaxLeaseIndex > rstate.LeaseAppliedIndex

----------------------------------------------------------------------------
\* C23: after a Close call, however many came before it, the batch is the zero
\* value; the storage batch of a batch is closed once at most: it is still
\* open and never closed while the batch holds it, it was closed once as soon
\* as a commit succeeded, and it was closed once when the batch is closed.
C23_CloseIsIdempotent ==
    /\ last.op = "Close" => b = ZeroBatch
    /\ hist.handleClosed <= 1
    /\ b.batch # Nil => hist.handleClosed = 0
    /\ pc = "applied" => b.batch = Nil /\ hist.handleClosed = 1
    /\ hist.life = "closed" => b = ZeroBatch /\ hist.handleClosed = 1

\* C23 witness: Close was called a second time on a batch whose commit had
\* failed and which the first Close had released.
C23_Witness ==
    /\ last.op = "Close"
    /\ last.preB = ZeroBatch
    /\ pc = "dead"
    /\ hist.life = "closed"
    /\ hist.handleClosed = 1

----------------------------------------------------------------------------
\* ApplySideEffects has returned for an accepted command whose result carried
\* a GC threshold.
GCThresholdApplied ==
    /\ last.op = "ApplySideEffects"
    /\ last.ok
    /\ writeBatchGCThreshold(last.cmd.raftCmd) # Nil

\* C24: when a command that carries a GC threshold has been committed and its
\* side effects have run, the live GC threshold, the one in the engine and
\* the one of the command are the same; and between batches the live GC
\* threshold is the one in the engine.
C24_GCThresholdMatchesDisk ==
    /\ GCThresholdApplied =>
          /\ rstate.GCThreshold = writeBatchGCThreshold(last.cmd.raftCmd)[1]
          /\ disk.gc = rstate.GCThreshold
    /\ pc = "idle" => disk.gc = rstate.GCThreshold

\* C24 witness: a GC request that raises the threshold from 0 to 1 has been
\* applied after a write.
C24_Witness ==
    /\ GCThresholdApplied
    /\ last.preLive.GCThreshold = 0
    /\ rstate.GCThreshold = 1
    /\ disk.gc = 1
    /\ last.idx = 2

----------------------------------------------------------------------------
\* The batch has been created and not handed to ApplyToStateMachine yet: it
\* is being staged, or a Stage call on it has failed.
BeforeCommit ==
    \/ pc = "staging"
    \/ pc \in {"failed", "crashed"} /\ last.op = "Stage"

\* C25: from NewBatch until ApplyToStateMachine the live state is the one
\* NewBatch copied, whatever was staged.
C25_StagingLeavesLiveState ==
    BeforeCommit => rstate = hist.live0

\* C25 witness: two commands are staged that moved the batch's indexes and
\* stats away from the live ones.
C25_Witness ==
    /\ pc = "staging"
    /\ hist.staged = 2
    /\ b.state.RaftAppliedIndex = rstate.RaftAppliedIndex + 2
    /\ b.state.LeaseAppliedIndex > rstate.LeaseAppliedIndex
    /\ b.state.Stats.LiveBytes = rstate.Stats.LiveBytes + 2

----------------------------------------------------------------------------
\* The node clock is not behind the timestamp of any accepted command of the
\* batch.
ClockCoversBatch ==
    \A i \in 1..Len(cmds) :
        cmds[i].forcedErr = ErrNil
            => clock >= cmds[i].raftCmd.ReplicatedEvalResult.Timestamp

\* C26: the node clock never moves backwards, and after a successful
\* ApplyToStateMachine it is at least the timestamp of every accepted command
\* of the batch.
C26_ClockCoversCommittedBatch ==
    [][/\ clock' >= clock
       /\ JustCommitted' /\ last' # last => ClockCoversBatch']_vars

\* C26 witness: a batch of two accepted commands, the first with the later
\* timestamp, has been committed and the clock stands at that timestamp.
C26_Witness ==
    /\ JustCommitted
    /\ pc = "applied"
    /\ Len(cmds) = 2
    /\ cmds[1].forcedErr = ErrNil
    /\ cmds[2].forcedErr = ErrNil
    /\ cmds[1].raftCmd.ReplicatedEvalResult.Timestamp
           > cmds[2].raftCmd.ReplicatedEvalResult.Timestamp
    /\ clock = cmds[1].raftCmd.ReplicatedEvalResult.Timestamp

----------------------------------------------------------------------------
\* ApplySideEffects has just run for a command.
SideEffectsRan == last.op = "ApplySideEffects"

\* The result of the command that ApplySideEffects ran for, as staged and
\* with its trivial fields cleared.
ClearedResult ==
    clearTrivialReplicatedEvalResultFields(last.cmd.raftCmd.ReplicatedEvalResult)

\* C27 as stated: one assertion for every command whose result is not empty
\* once the trivial fields are cleared, none for the others.
C27_AssertsOnceForNonEmptyResult ==
    SideEffectsRan =>
        last.asserted = IF ClearedResult # EmptyRER THEN 1 ELSE 0

\* C27: ApplySideEffects asserts the state once for a command that, as
\* staged, carries a lease, a GC threshold, the adoption of the
\* RangeAppliedState key, a split or a merge; for any other command, one that
\* carries only a raft log delta or suggested compactions included, and for a
\* trivial or rejected one, no assertion runs.
C27_AssertsOnceForStateEffects ==
    SideEffectsRan =>
        /\ last.asserted = IF HasNonTrivialEffect(last.cmd) THEN 1 ELSE 0
        /\ last.forced.err # ErrNil => last.asserted = 0

\* C27 witness: side effects ran with one assertion for an accepted GC
\* request that also carries a raft log delta.
C27_Witness ==
    /\ SideEffectsRan
    /\ last.forced.err = ErrNil
    /\ last.cmd.raftCmd.ReplicatedEvalResult.RaftLogDelta = 1
    /\ last.cmd.raftCmd.ReplicatedEvalResult.State # Nil
    /\ last.asserted = 1

\* Side effects ran without an assertion for an accepted command that carries
\* only a raft log delta.
C27_HandledWithoutAssertion ==
    /\ SideEffectsRan
    /\ last.forced.err = ErrNil
    /\ last.cmd.raftCmd.ReplicatedEvalResult.RaftLogDelta = 1
    /\ last.cmd.raftCmd.ReplicatedEvalResult.State = Nil
    /\ last.asserted = 0

----------------------------------------------------------------------------
\* Stage has just run the pre-apply triggers for a command that it accepted:
\* the entry index was in order and the force-error check raised no error.
TriggersRanForAccepted ==
    /\ last.op = "Stage"
    /\ last.idx = last.preB.state.RaftAppliedIndex + 1
    /\ last.forced.err = ErrNil

\* C28 as stated: Stage fails for every accepted command that has exactly one
\* of write batch and logical op log.
C28_MismatchAlwaysFails ==
    TriggersRanForAccepted
        /\ last.cmd.raftCmd.WriteBatch # last.cmd.raftCmd.LogicalOpLog
        => ~last.ok

\* C28: Stage is fatal for an accepted command with a logical op log and no
\* write batch. A command with a write batch and no logical op log is not
\* fatal: it is staged unless the engine refuses the write batch. A rejected
\* command is never fatal, whatever it carried.
C28_OpLogWithoutWriteBatchIsFatal ==
    /\ TriggersRanForAccepted =>
           LET rc == last.cmd.raftCmd
           IN  /\ ~rc.WriteBatch /\ rc.LogicalOpLog => pc = "crashed" /\ ~last.ok
               /\ rc.WriteBatch /\ ~rc.LogicalOpLog => last.ok \/ pc = "failed"
    /\ last.op = "Stage" /\ last.forced.err # ErrNil => pc # "crashed"

\* C28 witness: Stage ended fatally on an accepted command with a logical op
\* log and no write batch.
C28_Witness ==
    /\ TriggersRanForAccepted
    /\ ~last.cmd.raftCmd.WriteBatch
    /\ last.cmd.raftCmd.LogicalOpLog
    /\ pc = "crashed"

\* An accepted command with a write batch and no logical op log is staged.
C28_WriteBatchWithoutOpLogStaged ==
    /\ TriggersRanForAccepted
    /\ last.cmd.raftCmd.WriteBatch
    /\ ~last.cmd.raftCmd.LogicalOpLog
    /\ last.ok
    /\ pc = "staging"
    /\ cmds # <<>>

----------------------------------------------------------------------------
\* The lease and the GC threshold that the commands applied so far have left:
\* those of the last accepted command that carried one and whose side effects
\* ran, the initial ones when there was none.
AppliedLease ==
    IF hist.newLease = Nil THEN InitLease ELSE hist.newLease[1]

AppliedGCThreshold ==
    IF hist.newGC = Nil THEN InitReplicaState(FALSE).GCThreshold
    ELSE hist.newGC[1]

\* Stage has just run the force-error check for a command.
CheckRan ==
    /\ last.op = "Stage"
    /\ last.idx = last.preB.state.RaftAppliedIndex + 1

\* C29: every command is checked by Stage against the lease and the GC
\* threshold that the commands applied before it have left, and an open batch
\* holds that lease and threshold, which are the live ones.
C29_CheckedAgainstAppliedLeaseAndThreshold ==
    /\ CheckRan =>
           /\ last.preB.state.Lease = AppliedLease
           /\ last.preB.state.GCThreshold = AppliedGCThreshold
           /\ last.forced = shouldApplyCommand(
                                last.cmd,
                                [last.preB.state EXCEPT
                                    !.Lease = AppliedLease,
                                    !.GCThreshold = AppliedGCThreshold])
    /\ pc = "staging" =>
           /\ b.state.Lease = AppliedLease
           /\ b.state.GCThreshold = AppliedGCThreshold
           /\ rstate.Lease = AppliedLease
           /\ rstate.GCThreshold = AppliedGCThreshold

\* C29 witness: after a lease with a new sequence and a new GC threshold were
\* applied, a command proposed under the old lease sequence is rejected and
\* the batch holds the new lease and threshold.
C29_Witness ==
    /\ CheckRan
    /\ hist.newLease # Nil
    /\ hist.newGC # Nil
    /\ AppliedLease.Sequence # InitLease.Sequence
    /\ AppliedGCThreshold # InitReplicaState(FALSE).GCThreshold
    /\ last.cmd.raftCmd.ProposerLeaseSequence = InitLease.Sequence
    /\ last.forced.err # ErrNil
    /\ last.preB.state.Lease = AppliedLease

----------------------------------------------------------------------------
\* A lease request that names the proposed timestamp of the lease it was
\* proposed against.
NamesPrevLease(c) ==
    /\ c.raftCmd.ReplicatedEvalResult.IsLeaseRequest
    /\ c.raftCmd.ReplicatedEvalResult.PrevLeaseProposal # Nil

\* Two commands proposed against the same lease: the same proposer lease
\* sequence and the same proposed timestamp of the previous lease.
SameProposerLease(c1, c2) ==
    /\ c1.raftCmd.ProposerLeaseSequence = c2.raftCmd.ProposerLeaseSequence
    /\ c1.raftCmd.ReplicatedEvalResult.PrevLeaseProposal
           = c2.raftCmd.ReplicatedEvalResult.PrevLeaseProposal

\* C30: of the lease requests proposed against the same lease, at most one is
\* accepted, and none is accepted twice; a request staged once another one
\* proposed against the same lease was accepted is rejected with a
\* LeaseRejectedError.
C30_OneLeaseRequestPerLease ==
    /\ \A c1, c2 \in props.accepted :
           NamesPrevLease(c1) /\ NamesPrevLease(c2) /\ SameProposerLease(c1, c2)
               => c1 = c2
    /\ \A c \in props.twice : ~NamesPrevLease(c)
    /\ CheckRan /\ NamesPrevLease(last.cmd)
           /\ (\E c \in props.accepted :
                  /\ NamesPrevLease(c)
                  /\ SameProposerLease(c, last.cmd)
                  /\ (c # last.cmd \/ last.forced.err # ErrNil))
           => last.forced.err = ErrLeaseRejectedInvalid

\* C30 witness: after the extension proposed against the initial lease was
\* applied, which left the lease sequence as it was, the longer extension
\* proposed against the same lease is rejected with a LeaseRejectedError.
C30_Witness ==
    /\ CheckRan
    /\ NamesPrevLease(last.cmd)
    /\ last.cmd.raftCmd.ReplicatedEvalResult.State[1].Lease[1].Expiration = 3
    /\ last.cmd.raftCmd.ReplicatedEvalResult.PrevLeaseProposal
           = Some(InitLease.ProposedTS)
    /\ last.forced.err = ErrLeaseRejectedInvalid
    /\ last.preB.state.Lease = MkLease(1, 2, 1, 2)
    /\ last.preB.state.Lease.Sequence = last.cmd.raftCmd.ProposerLeaseSequence
    /\ \E c \in props.accepted : NamesPrevLease(c) /\ SameProposerLease(c, last.cmd)

----------------------------------------------------------------------------
\* The pipeline run has ended: the batch was closed, after its side effects
\* ("idle") or after a failure ("dead").
RunEnded == pc \in {"idle", "dead"}

\* C31 as stated: no partner-range lock is held once the pipeline run has
\* ended, whether it ended in a non-deterministic failure or not.
C31_NoLockHeldAfterRun ==
    RunEnded => ~splitMergeLock.held

\* C31: the lock is released by ApplySideEffects only. A run that ends
\* without a failure leaves no lock held. Stage and ApplyToStateMachine, and
\* the Close that follows their failure, release nothing: when one of them
\* fails with the lock acquired, the lock is still held when the run ends.
C31_LockReleasedBySideEffectsOnly ==
    /\ pc = "idle" => ~splitMergeLock.held
    /\ last.op \in {"Stage", "ApplyToStateMachine", "Close"} =>
          splitMergeLock.released = last.preLock.released
    /\ last.op \in {"ApplyToStateMachine", "Close"} =>
          splitMergeLock = last.preLock
    /\ pc = "dead" /\ last.op = "Close" =>
          splitMergeLock.held = last.preLock.held

\* C31 witness: Stage acquired the lock for a split and then failed to stage
\* the write batch; the run has ended and the lock is held.
C31_Witness ==
    /\ pc = "dead"
    /\ last.op = "Close"
    /\ splitMergeLock.held
    /\ splitMergeLock.acquired = splitMergeLock.released + 1
    /\ cmds = <<>>

----------------------------------------------------------------------------
\* The live state that the batch leaves once it is published.
PostBatch == IF pc = "publishing" THEN b.state ELSE rstate

\* C32: what a reader saw under the shared lock since the batch was created
\* has the raft applied index, the lease applied index and the stats of the
\* live state before the batch, or those of the live state after it, never
\* a mix of the two.
C32_ReaderSeesWholeBatch ==
    mu.snap # Nil =>
        \/ AppliedPart(mu.snap[1]) = AppliedPart(hist.live0)
        \/ AppliedPart(mu.snap[1]) = AppliedPart(PostBatch)

\* C32 witness: a reader has seen the live state of a committed batch that
\* moved the raft applied index, the lease applied index and the stats.
C32_Witness ==
    /\ pc = "applied"
    /\ mu.snap = Some(rstate)
    /\ rstate.RaftAppliedIndex > hist.live0.RaftAppliedIndex
    /\ rstate.LeaseAppliedIndex > hist.live0.LeaseAppliedIndex
    /\ rstate.Stats # hist.live0.Stats

----------------------------------------------------------------------------
\* The forced errors of the batch's commands.
ForcedErrs ==
    { cmds[i].forcedErr : i \in 1..Len(cmds) } \cup {last.forced.err}

\* The error that e wraps at the bottom.
RECURSIVE RootCause(_)
RootCause(e) == IF e.wrapped = Nil THEN e ELSE RootCause(e.wrapped[1])

----------------------------------------------------------------------------
C34_OwnChangeApplied ==
    /\ SideEffectsRan
    /\ last.cmd.entType = "EntryConfChange"
    /\ last.forced.err = ErrNil
    /\ last.ccApplied = <<AddNodeConfChange>>

----------------------------------------------------------------------------
\* C35: when ApplySideEffects has run for a command, exactly one of the raft
\* log delta handler and the no-delta hook has run: the no-delta hook ran if
\* and only if no raft log delta was handled for the command, whether the
\* delta came with the command or from the truncated-state handler.
C35_ExactlyOneLogDeltaHook ==
    SideEffectsRan => (last.noLogDelta <=> ~last.logDelta)

\* ApplySideEffects has run for a truncation whose command carried no raft
\* log delta and whose truncated-state handler returned one: the delta was
\* handled.
C35_DeltaFromTruncationOnly ==
    /\ SideEffectsRan
    /\ HasTruncatedState(last.cmd.raftCmd.ReplicatedEvalResult)
    /\ last.cmd.raftCmd.ReplicatedEvalResult.RaftLogDelta = 0
    /\ last.logDelta

----------------------------------------------------------------------------
\* The system bytes that the legacy applied-index records take in engine
\* contents d.
OnDiskAppliedIndexSysBytes(d) ==
    CalcAppliedIndexSysBytes(d.legacyIdx[1][1], d.legacyIdx[1][2])

\* C36: under the legacy layout every commit adjusts the system bytes of the
\* stats by the size of the applied-index records it writes minus the size of
\* the records they overwrite, those of the indexes before the batch: after
\* any sequence of commits the system bytes of the stats on disk and of the
\* live stats are those the applied-index records take on disk.
C36_SysBytesTrackAppliedIndexRecords ==
    /\ LegacyLayout(disk) =>
           disk.legacyMS[1].SysBytes = OnDiskAppliedIndexSysBytes(disk)
    /\ JustCommitted /\ LegacyLayout(disk) /\ LegacyLayout(last.preDisk) =>
           rstate.Stats.SysBytes
             = last.preLive.Stats.SysBytes
                 + OnDiskAppliedIndexSysBytes(disk)
                 - OnDiskAppliedIndexSysBytes(last.preDisk)

\* A commit under the legacy layout has overwritten the applied-index records
\* with records of another size.
C36_RecordsChangedSize ==
    /\ JustCommitted
    /\ LegacyLayout(disk)
    /\ LegacyLayout(last.preDisk)
    /\ OnDiskAppliedIndexSysBytes(disk)
          # OnDiskAppliedIndexSysBytes(last.preDisk)

----------------------------------------------------------------------------
\* The stand-alone call's command has an id, is no lease request and fails
\* both the lease check and the lease-index check.
ChkFailsLeaseAndOrdering ==
    /\ chk.idKey # ""
    /\ ~chk.raftCmd.ReplicatedEvalResult.IsLeaseRequest
    /\ ~LeaseMatches(chk.raftCmd, chk.rs)
    /\ chk.raftCmd.MaxLeaseIndex <= chk.rs.LeaseAppliedIndex

\* C37: a command other than a lease request that fails both the lease check
\* and the lease-index check is rejected as not-leaseholder with no retry
\* reason, local or not; the illegal-lease-index retry reason is returned
\* only for a command proposed under the current lease.
C37_LeaseCheckBeforeOrderingCheck ==
    ChkDone =>
        /\ ChkFailsLeaseAndOrdering =>
               chk.out = MkForced(chk.rs.LeaseAppliedIndex,
                                  proposalNoReevaluation, ErrNotLeaseHolder)
        /\ chk.out.retry = proposalIllegalLeaseIndex =>
               LeaseMatches(chk.raftCmd, chk.rs)

\* C37 witness: a local command that fails both checks was rejected as
\* not-leaseholder without a retry reason.
C37_Witness ==
    /\ ChkDone
    /\ ChkFailsLeaseAndOrdering
    /\ chk.isLocal
    /\ chk.out.err = ErrNotLeaseHolder
    /\ chk.out.retry = proposalNoReevaluation

----------------------------------------------------------------------------
\* The lease a lease request asks for.
ChkRequestedLease == chk.raftCmd.ReplicatedEvalResult.State[1].Lease[1]

\* The stand-alone call's command is a lease request with an id that passes
\* the lease checks: what leaseMismatch looks at is in order.
ChkLeaseRequestPassesLease ==
    /\ chk.idKey # ""
    /\ chk.raftCmd.ReplicatedEvalResult.IsLeaseRequest
    /\ ~leaseMismatch(chk.raftCmd, chk.rs)

\* The call and the Stage call of the same command on a fresh batch are done.
ChkStaged == chk.pc = "staged"

\* The original statement of C38: a lease request that passes the lease
\* checks and names a replica of the descriptor is accepted whatever its
\* MaxLeaseIndex is.
C38_LeaseRequestInRangeAccepted ==
    ChkDone /\ ChkLeaseRequestPassesLease
            /\ ChkRequestedLease.StoreID \in chk.rs.Desc
        => chk.out.err = ErrNil

\* C38: a lease request that passes the lease checks, names a replica of the
\* descriptor and has a timestamp above the GC threshold is accepted whatever
\* its MaxLeaseIndex is, and staging it leaves the lease applied index as it
\* was; a lease request with an id whose requested replica is not in the
\* descriptor is rejected with a lease-rejected error.
C38_LeaseRequestIgnoresMaxLeaseIndex ==
    /\ ChkDone /\ ChkLeaseRequestPassesLease
               /\ ChkRequestedLease.StoreID \in chk.rs.Desc
               /\ chk.rs.GCThreshold < chk.raftCmd.ReplicatedEvalResult.Timestamp
           => chk.out = MkForced(chk.rs.LeaseAppliedIndex,
                                 proposalNoReevaluation, ErrNil)
    /\ ChkStaged /\ chk.raftCmd.ReplicatedEvalResult.IsLeaseRequest
           => chk.stage.b.state.LeaseAppliedIndex = chk.rs.LeaseAppliedIndex
    /\ ChkDone /\ chk.idKey # ""
               /\ chk.raftCmd.ReplicatedEvalResult.IsLeaseRequest
               /\ ChkRequestedLease.StoreID \notin chk.rs.Desc
           => chk.out.err \in {ErrLeaseRejectedInvalid, ErrLeaseRejectedNotInRange}

\* C38 witness: a lease request at a MaxLeaseIndex behind the lease applied
\* index was accepted and staged.
C38_Witness ==
    /\ ChkStaged
    /\ ChkLeaseRequestPassesLease
    /\ ChkRequestedLease.StoreID \in chk.rs.Desc
    /\ chk.raftCmd.MaxLeaseIndex < chk.rs.LeaseAppliedIndex
    /\ chk.out.err = ErrNil
    /\ chk.stage.out = "ok"
    /\ chk.stage.b.state.LeaseAppliedIndex = chk.rs.LeaseAppliedIndex

\* A lease request that passes the lease checks for a store outside the
\* range was rejected.
C38_NotInRangeRejected ==
    /\ ChkDone
    /\ ChkLeaseRequestPassesLease
    /\ ChkRequestedLease.StoreID \notin chk.rs.Desc
    /\ chk.out.err = ErrLeaseRejectedNotInRange

----------------------------------------------------------------------------
\* C39: the GC-threshold check applies to lease requests too: a lease request
\* that passes the lease checks and names a replica of the descriptor, and
\* whose timestamp is not above the GC threshold, is rejected as
\* batch-timestamp-before-GC.
C39_GCThresholdCheckedForLeaseRequests ==
    ChkDone /\ ChkLeaseRequestPassesLease
            /\ ChkRequestedLease.StoreID \in chk.rs.Desc
            /\ chk.raftCmd.ReplicatedEvalResult.Timestamp <= chk.rs.GCThreshold
        => chk.out = MkForced(chk.rs.LeaseAppliedIndex,
                              proposalNoReevaluation, ErrBeforeGC)

\* C39 witness: a lease request at the GC threshold was rejected as
\* before-GC.
C39_Witness ==
    /\ ChkDone
    /\ ChkLeaseRequestPassesLease
    /\ ChkRequestedLease.StoreID \in chk.rs.Desc
    /\ chk.rs.GCThreshold > 0
    /\ chk.raftCmd.ReplicatedEvalResult.Timestamp = chk.rs.GCThreshold
    /\ chk.out.err = ErrBeforeGC

----------------------------------------------------------------------------
\* The number of times the SSTable of entry idx was handed to the engine.
Ingestions(idx) ==
    Cardinality({ i \in 1..Len(rstore.ingested) : rstore.ingested[i] = idx })

\* Stage has just returned a checked command.
JustStaged == last.op = "Stage" /\ last.ok

\* The command of the last operation carries an AddSSTable.
LastIsAddSSTable == last.cmd.raftCmd.ReplicatedEvalResult.AddSSTable

\* C40: when Stage returns an accepted AddSSTable command, it has handed the
\* command's SSTable to the engine once and raised the ingestion counter by
\* one; when it returns a rejected one, or any other command, nothing was
\* ingested and the counter is as it was. No other operation ingests: when a
\* batch commits, the SSTable of each accepted AddSSTable command in it has
\* been ingested exactly once.
C40_AcceptedAddSSTableIngestedOnce ==
    /\ JustStaged =>
          IF LastIsAddSSTable /\ last.forced.err = ErrNil
          THEN /\ rstore.ingested = Append(last.preStore.ingested, last.idx)
               /\ rstore.AddSSTableApplications
                     = last.preStore.AddSSTableApplications + 1
               /\ Ingestions(last.idx) = 1
          ELSE rstore = last.preStore
    /\ last.op \notin {"Stage", "none"} => rstore = last.preStore
    /\ JustCommitted => \A idx \in hist.sstStaged : Ingestions(idx) = 1

\* C40 witness: a batch with an accepted AddSSTable command has committed
\* after an AddSSTable command was rejected, with one ingestion counted.
C40_Witness ==
    /\ JustCommitted
    /\ hist.sstStaged # {}
    /\ hist.stagedIdx > 1
    /\ Len(rstore.ingested) = 1
    /\ rstore.AddSSTableApplications = 1

\* Stage has returned a rejected AddSSTable command.
C40_RejectedNotIngested ==
    /\ JustStaged
    /\ LastIsAddSSTable
    /\ last.forced.err # ErrNil
    /\ rstore = last.preStore
====
